---- MODULE Spec2Model ----
(***************************************************************************)
(* A model of the property-discovery engine of the dealHunter AI service:  *)
(* app/core/web_search.py, class WebSearchClient.                          *)
(*                                                                         *)
(* Text is modelled character by character: a Python str is a sequence of  *)
(* one-character strings, so that lowercasing, trimming and the regular    *)
(* expressions of the extractors are computed, not assumed.  A Python      *)
(* Optional value is a sequence of length 0 (None) or 1 (the value).       *)
(***************************************************************************)
EXTENDS Integers, Sequences, FiniteSets, TLC

\* ------------------------------------------------------------------ text

UpperChars == <<"A","B","C","D","E","F","G","H","I","J","K","L","M",
                "N","O","P","Q","R","S","T","U","V","W","X","Y","Z">>

LowerChars == <<"a","b","c","d","e","f","g","h","i","j","k","l","m",
                "n","o","p","q","r","s","t","u","v","w","x","y","z">>

DigitChars == <<"0","1","2","3","4","5","6","7","8","9">>

Range(f) == {f[i] : i \in DOMAIN f}

UpperSet == Range(UpperChars)

LowerSet == Range(LowerChars)

DigitSet == Range(DigitChars)

\* Python's \s and the characters str.strip() removes (ASCII part).
SpaceSet == {" ", "\t", "\n"}

\* Python's \w (ASCII part).
WordSet == UpperSet \cup LowerSet \cup DigitSet \cup {"_"}

\* str.lower() on one character.
LowerChar(c) ==
    IF c \in UpperSet
    THEN LowerChars[CHOOSE i \in DOMAIN UpperChars : UpperChars[i] = c]
    ELSE c

\* str.lower()
Lower(s) == [i \in DOMAIN s |-> LowerChar(s[i])]

\* str.lstrip() and str.rstrip()
RECURSIVE LStrip(_)
LStrip(s) ==
    IF s # <<>> /\ Head(s) \in SpaceSet THEN LStrip(Tail(s)) ELSE s

RECURSIVE RStrip(_)
RStrip(s) ==
    IF s # <<>> /\ s[Len(s)] \in SpaceSet THEN RStrip(SubSeq(s, 1, Len(s) - 1))
    ELSE s

\* str.strip(): leading and trailing whitespace removed, inner kept.
Strip(s) == RStrip(LStrip(s))

\* s[:n]
Take(s, n) == SubSeq(s, 1, IF Len(s) < n THEN Len(s) ELSE n)

\* The value of a digit character.
DigitVal(c) == (CHOOSE i \in DOMAIN DigitChars : DigitChars[i] = c) - 1

\* int(s) for a string of digits.
RECURSIVE IntOf(_)
IntOf(s) ==
    IF s = <<>> THEN 0
    ELSE 10 * IntOf(SubSeq(s, 1, Len(s) - 1)) + DigitVal(s[Len(s)])

\* str.replace(c, '') for a single character c.
RECURSIVE RemoveChar(_, _)
RemoveChar(s, c) ==
    IF s = <<>> THEN <<>>
    ELSE IF Head(s) = c THEN RemoveChar(Tail(s), c)
         ELSE <<Head(s)>> \o RemoveChar(Tail(s), c)

\* `sub in s`
Contains(s, sub) ==
    \E i \in 1..(Len(s) - Len(sub) + 1) : SubSeq(s, i, i + Len(sub) - 1) = sub

\* The element of a one-element set.  The({e(x) : x \in {v}}) is e with the
\* local variable x bound to the value v, computed once.
The(S) == CHOOSE x \in S : TRUE

\* ------------------------------------------------- regular expressions
\* A pattern is a tree; Ends(r, s, i) lists, in the order Python's
\* backtracking matcher tries them, the positions at which a match of r
\* that starts at position i of s can end (a position is the index of the
\* next character to read).  The first element is the match re returns.

RSet(cs) == [t |-> "set", cs |-> cs]

RLit(w) == [t |-> "lit", w |-> w]

RSeq(a, b) == [t |-> "seq", a |-> a, b |-> b]

RAlt(a, b) == [t |-> "alt", a |-> a, b |-> b]

RStar(a) == [t |-> "star", a |-> a]

ROpt(a) == [t |-> "opt", a |-> a]

REps == [t |-> "eps"]

RBol == [t |-> "bol"]

RWordB == [t |-> "wordb"]

RPlus(a) == RSeq(a, RStar(a))

RECURSIVE RAltOf(_)
RAltOf(ws) ==
    IF Len(ws) = 1 THEN RLit(ws[1]) ELSE RAlt(RLit(ws[1]), RAltOf(Tail(ws)))

RECURSIVE RSeqOf(_)
RSeqOf(rs) ==
    IF Len(rs) = 1 THEN rs[1] ELSE RSeq(rs[1], RSeqOf(Tail(rs)))

RECURSIVE RRepeat(_, _)
RRepeat(a, n) == IF n = 0 THEN REps ELSE RSeq(a, RRepeat(a, n - 1))

IsWordAt(s, i) == i >= 1 /\ i <= Len(s) /\ s[i] \in WordSet

RECURSIVE Ends(_, _, _)
RECURSIVE EndsFrom(_, _, _)
\* The ends of r started at each position of the list `starts`, in order.
EndsFrom(r, s, starts) ==
    IF starts = <<>> THEN <<>>
    ELSE Ends(r, s, Head(starts)) \o EndsFrom(r, s, Tail(starts))

Ends(r, s, i) ==
    CASE r.t = "set" ->
            IF i <= Len(s) /\ s[i] \in r.cs THEN <<i + 1>> ELSE <<>>
      [] r.t = "lit" ->
            IF i + Len(r.w) - 1 <= Len(s) /\ SubSeq(s, i, i + Len(r.w) - 1) = r.w
            THEN <<i + Len(r.w)>> ELSE <<>>
      [] r.t = "seq" -> EndsFrom(r.b, s, Ends(r.a, s, i))
      [] r.t = "alt" -> Ends(r.a, s, i) \o Ends(r.b, s, i)
      [] r.t = "star" ->
            EndsFrom(r, s, SelectSeq(Ends(r.a, s, i), LAMBDA e : e > i)) \o <<i>>
      [] r.t = "opt" -> Ends(r.a, s, i) \o <<i>>
      [] r.t = "eps" -> <<i>>
      [] r.t = "bol" -> IF i = 1 THEN <<i>> ELSE <<>>
      [] r.t = "wordb" ->
            IF IsWordAt(s, i - 1) # IsWordAt(s, i) THEN <<i>> ELSE <<>>

\* re.search(r, s) from position i on: None, or the (start, end) of the
\* leftmost match, ended where the matcher first succeeds.
SearchFrom(r, s, i) ==
    IF \A k \in i..(Len(s) + 1) : Ends(r, s, k) = <<>> THEN <<>>
    ELSE <<[start |-> CHOOSE k \in i..(Len(s) + 1) :
                         /\ Ends(r, s, k) # <<>>
                         /\ \A j \in i..(k - 1) : Ends(r, s, j) = <<>>,
            end   |-> Ends(r, s, CHOOSE k \in i..(Len(s) + 1) :
                                    /\ Ends(r, s, k) # <<>>
                                    /\ \A j \in i..(k - 1) : Ends(r, s, j) = <<>>)[1]]>>

Search(r, s) == SearchFrom(r, s, 1)

\* match.group(0)
Group0(s, m) == SubSeq(s, m.start, m.end - 1)

\* The text of an Optional match m in s: None, or the matched text.
MatchOf(s, m) == IF m = <<>> THEN <<>> ELSE <<Group0(s, m[1])>>

\* `a if a is not None else b` for Optional values.
OrElse(a, b) == IF a # <<>> THEN a ELSE b

\* The ends of the group grp started at g after which suf matches, in the
\* order the matcher tries them.
GroupEnds(grp, suf, s, g) ==
    SelectSeq(Ends(grp, s, g), LAMBDA e : Ends(suf, s, e) # <<>>)

\* The span of the group of the first match of (grp)suf started at one of
\* the positions `starts`, in order: None if there is none.
RECURSIVE GroupEndsFrom(_, _, _, _)
GroupEndsFrom(grp, suf, s, starts) ==
    IF starts = <<>> THEN <<>>
    ELSE IF GroupEnds(grp, suf, s, Head(starts)) # <<>>
         THEN <<[start |-> Head(starts),
                 end   |-> GroupEnds(grp, suf, s, Head(starts))[1]]>>
         ELSE GroupEndsFrom(grp, suf, s, Tail(starts))

\* The span of the group of pre(grp)suf matched at start position i.
GroupAt(pre, grp, suf, s, i) == GroupEndsFrom(grp, suf, s, Ends(pre, s, i))

\* re.search of pre(grp)suf: None, or the span of the group of the match.
SearchGroup(pre, grp, suf, s) ==
    IF \A k \in 1..(Len(s) + 1) : GroupAt(pre, grp, suf, s, k) = <<>> THEN <<>>
    ELSE GroupAt(pre, grp, suf, s,
                 CHOOSE k \in 1..(Len(s) + 1) :
                     /\ GroupAt(pre, grp, suf, s, k) # <<>>
                     /\ \A j \in 1..(k - 1) : GroupAt(pre, grp, suf, s, j) = <<>>)

\* -------------------------------------------------------- the extractors

RDigit == RSet(DigitSet)

RSpace == RSet(SpaceSet)

RUpper == RSet(UpperSet)

RLower == RSet(LowerSet)

\* [\d.]
RDigitDot == RSet(DigitSet \cup {"."})

\* [A-Z][a-z]+
RCapWord == RSeq(RUpper, RPlus(RLower))

\* The street suffixes of _contains_address_pattern, in the order of the list.
street_suffixes ==
    << <<"R","d">>, <<"R","o","a","d">>, <<"S","t">>, <<"S","t","r","e","e","t">>,
       <<"A","v","e">>, <<"A","v","e","n","u","e">>, <<"D","r">>,
       <<"D","r","i","v","e">>, <<"L","n">>, <<"L","a","n","e">>, <<"C","t">>,
       <<"C","o","u","r","t">>, <<"B","l","v","d">>,
       <<"B","o","u","l","e","v","a","r","d">>, <<"W","a","y">>,
       <<"P","k","w","y">>, <<"P","a","r","k","w","a","y">>, <<"P","l">>,
       <<"P","l","a","c","e">>, <<"L","o","o","p">>, <<"C","i","r">>,
       <<"C","i","r","c","l","e">> >>

\* r'\d+\s+[A-Z][a-z]+\s+(?:Rd|Road|...|Circle)'
address_pattern ==
    RSeqOf(<<RPlus(RDigit), RPlus(RSpace), RCapWord, RPlus(RSpace),
             RAltOf(street_suffixes)>>)

\* r'LOT\s+\d+' with re.IGNORECASE
lot_pattern ==
    RSeqOf(<<RSet({"L","l"}), RSet({"O","o"}), RSet({"T","t"}),
             RPlus(RSpace), RPlus(RDigit)>>)

\* r'#\d+'
unit_pattern == RSeq(RLit(<<"#">>), RPlus(RDigit))

\* _contains_address_pattern(text)
ContainsAddressPattern(text) ==
    \/ Search(address_pattern, text) # <<>>
    \/ Search(lot_pattern, text) # <<>>
    \/ Search(unit_pattern, text) # <<>>

\* The invalid_patterns of _is_valid_address, matched on the lowercased text.
invalid_patterns ==
    << RSeq(RBol, RLit(<<"p","r","o","p","e","r","t","y"," ","i","n">>)),
       RSeq(RBol, RLit(<<"l","a","n","d"," ","i","n">>)),
       RSeqOf(<<RBol, RLit(<<"h","o","m","e">>), ROpt(RLit(<<"s">>)),
                RLit(<<" ","i","n">>)>>),
       RSeqOf(<<RBol, RPlus(RDigit), RStar(RSpace),
                RLit(<<"l","i","s","t","i","n","g">>)>>),
       RSeq(RBol, RLit(<<"s","e","a","r","c","h">>)),
       RSeq(RBol, RLit(<<"u","n","d","e","r"," ","$">>)) >>

\* The least length of a valid address.
MinAddressLen == 10

\* The address test without the invalid patterns: a digit and the length.
IsValidAddressUnpatterned(address) ==
    /\ Search(RPlus(RDigit), address) # <<>>
    /\ Len(address) >= MinAddressLen

\* _is_valid_address(address)
IsValidAddress(address) ==
    /\ \A k \in DOMAIN invalid_patterns :
          Search(invalid_patterns[k], Lower(address)) = <<>>
    /\ Search(RPlus(RDigit), address) # <<>>
    /\ Len(address) >= MinAddressLen

\* The accepted price range of _extract_price.
MinPrice == 1000

MaxPrice == 50000000

\* \d{1,3}, greedy
RDigits1to3 == RSeq(RDigit, ROpt(RSeq(RDigit, ROpt(RDigit))))

\* The patterns of _extract_price, each as <<before the group, the group>>.
price_patterns ==
    << <<RSeq(RLit(<<"$">>), RStar(RSpace)),
         RSeq(RDigits1to3, RPlus(RSeq(RLit(<<",">>), RRepeat(RDigit, 3))))>>,
       <<RSeq(RLit(<<"$">>), RStar(RSpace)),
         RSeq(RRepeat(RDigit, 4), RStar(RDigit))>> >>

\* The loop of _extract_price without the range test: the first match
\* returns.
RECURSIVE ExtractPriceUnranged(_, _, _)
ExtractPriceUnranged(text, patterns, k) ==
    IF k > Len(patterns) THEN 0
    ELSE The({ IF m # <<>> THEN IntOf(RemoveChar(Group0(text, m[1]), ","))
               ELSE ExtractPriceUnranged(text, patterns, k + 1) :
               m \in {SearchGroup(patterns[k][1], patterns[k][2], REps, text)} })

\* The loop of _extract_price from pattern k on: a match in range returns,
\* a match out of range and no match both go on to the next pattern.
RECURSIVE ExtractPriceFrom(_, _, _)
ExtractPriceFrom(text, patterns, k) ==
    IF k > Len(patterns) THEN 0
    ELSE The({ IF price >= MinPrice /\ price <= MaxPrice THEN price
               ELSE ExtractPriceFrom(text, patterns, k + 1) :
               price \in { The({ IF m = <<>> THEN 0
                                 ELSE IntOf(RemoveChar(Group0(text, m[1]), ",")) :
                                 m \in {SearchGroup(patterns[k][1], patterns[k][2],
                                                    REps, text)} }) } })

\* _extract_price(text)
ExtractPrice(text) == ExtractPriceFrom(text, price_patterns, 1)

\* ------------------------------------------------------------- floats
\* A Python float read from a decimal string is the exact decimal
\* [n, d] = n / 10^d, with no trailing zero in the fraction.

RECURSIVE Pow10(_)
Pow10(d) == IF d = 0 THEN 1 ELSE 10 * Pow10(d - 1)

RECURSIVE NormFloat(_)
NormFloat(x) ==
    IF x.d > 0 /\ x.n % 10 = 0 THEN NormFloat([n |-> x.n \div 10, d |-> x.d - 1])
    ELSE x

\* Whether float(s) raises ValueError, for s made of digits and dots.
FloatRaises(s) ==
    \/ Cardinality({i \in DOMAIN s : s[i] = "."}) > 1
    \/ \A i \in DOMAIN s : s[i] = "."

\* float(s), for s made of digits and at most one dot.
FloatOf(s) ==
    LET dots == {i \in DOMAIN s : s[i] = "."}
        d    == IF dots = {} THEN 0 ELSE Len(s) - (CHOOSE i \in dots : TRUE)
    IN  NormFloat([n |-> IntOf(RemoveChar(s, ".")), d |-> d])

\* lo <= x <= hi for integers lo, hi given in tenths.
FloatInTenths(x, lo, hi) ==
    /\ 10 * x.n >= lo * Pow10(x.d)
    /\ 10 * x.n <= hi * Pow10(x.d)

\* The accepted acreage range of _extract_acres, in tenths of an acre.
MinAcresTenths == 1

MaxAcresTenths == 100000

\* The patterns of _extract_acres: <<the group, after the group>>.
acres_patterns ==
    << <<RPlus(RDigitDot),
         RSeqOf(<<RStar(RSpace), RLit(<<"a","c","r","e">>), ROpt(RLit(<<"s">>))>>)>>,
       <<RPlus(RDigitDot),
         RSeqOf(<<RStar(RSpace), RLit(<<"a","c">>), RWordB>>)>> >>

\* The try block of _extract_acres on the group g of a match (None when
\* the pattern did not match): the acreage when float() reads it and it is
\* in range, None when the loop goes on to the next pattern.
AcresOf(g) ==
    IF g = <<>> \/ FloatRaises(g[1]) THEN <<>>
    ELSE IF FloatInTenths(FloatOf(g[1]), MinAcresTenths, MaxAcresTenths)
         THEN <<FloatOf(g[1])>>
         ELSE <<>>

\* The loop of _extract_acres when the first pattern that matches decides.
RECURSIVE ExtractAcresFirstMatch(_, _, _)
ExtractAcresFirstMatch(low, patterns, k) ==
    IF k > Len(patterns) THEN <<>>
    ELSE The({ IF g # <<>> THEN AcresOf(g)
               ELSE ExtractAcresFirstMatch(low, patterns, k + 1) :
               g \in {MatchOf(low, SearchGroup(REps, patterns[k][1],
                                               patterns[k][2], low))} })

\* The loop of _extract_acres over the lowercased text from pattern k on.
RECURSIVE ExtractAcresFrom(_, _, _)
ExtractAcresFrom(low, patterns, k) ==
    IF k > Len(patterns) THEN <<>>
    ELSE OrElse(AcresOf(MatchOf(low, SearchGroup(REps, patterns[k][1],
                                                 patterns[k][2], low))),
                ExtractAcresFrom(low, patterns, k + 1))

\* _extract_acres(text): None, or the acreage.
ExtractAcres(text) ==
    IF text = <<>> THEN <<>> ELSE ExtractAcresFrom(Lower(text), acres_patterns, 1)

\* The suffixes of street_pattern in _extract_address, in order.
extract_suffixes ==
    << <<"S","t">>, <<"A","v","e">>, <<"R","d">>, <<"D","r">>, <<"L","n">>,
       <<"C","t">>, <<"B","l","v","d">>, <<"W","a","y">>, <<"P","k","w","y">>,
       <<"P","l">>, <<"L","o","o","p">>, <<"C","i","r">> >>

\* r'\d+\s+[A-Z][a-z]+(?:\s+[A-Z][a-z]+)*\s+(?:St|Ave|...|Cir)'
street_pattern ==
    RSeqOf(<<RPlus(RDigit), RPlus(RSpace), RCapWord,
             RStar(RSeq(RPlus(RSpace), RCapWord)), RPlus(RSpace),
             RAltOf(extract_suffixes)>>)

\* title.split('|')[0]
BeforeBar(title) ==
    LET bars == {i \in DOMAIN title : title[i] = "|"}
    IN  IF bars = {} THEN title
        ELSE SubSeq(title, 1, (CHOOSE i \in bars : \A j \in bars : i <= j) - 1)

\* The title lengths between which the title itself is taken as the address.
TitleMinLen == 10

TitleMaxLen == 100

\* _extract_address(title, snippet, location): None, or the address.
ExtractAddress(title, snippet) ==
    OrElse(MatchOf(title, Search(street_pattern, title)),
           OrElse(MatchOf(snippet, Search(street_pattern, snippet)),
                  IF /\ Search(RPlus(RDigit), title) # <<>>
                     /\ Len(title) > TitleMinLen
                     /\ Len(title) < TitleMaxLen
                  THEN <<Strip(BeforeBar(title))>>
                  ELSE <<>>))

\* r'(\d+)\s*(?:bed|bd|bedroom)': <<group, after the group>>
bed_pattern ==
    <<RPlus(RDigit),
      RSeq(RStar(RSpace), RAltOf(<<<<"b","e","d">>, <<"b","d">>, <<"b","e","d","r","o","o","m">>>>))>>

\* r'([\d.]+)\s*(?:bath|ba)'
bath_pattern ==
    <<RPlus(RDigitDot), RSeq(RStar(RSpace), RAltOf(<<<<"b","a","t","h">>, <<"b","a">>>>))>>

\* Whether _extract_beds_baths(text) raises: float() of a group such as '.'
\* or '1.2.3' is a ValueError the function does not catch.
ExtractBedsBathsRaises(text) ==
    \E g \in {MatchOf(Lower(text), SearchGroup(REps, bath_pattern[1],
                                               bath_pattern[2], Lower(text)))} :
        g # <<>> /\ FloatRaises(g[1])

\* _extract_beds_baths(text), when it does not raise: (beds, baths).
ExtractBedsBaths(text) ==
    The({ [beds  |-> IF bed = <<>> THEN <<>> ELSE <<IntOf(bed[1])>>,
           baths |-> IF bath = <<>> THEN <<>> ELSE <<FloatOf(bath[1])>>] :
          bed  \in {MatchOf(Lower(text), SearchGroup(REps, bed_pattern[1],
                                                     bed_pattern[2], Lower(text)))},
          bath \in {MatchOf(Lower(text), SearchGroup(REps, bath_pattern[1],
                                                     bath_pattern[2], Lower(text)))} })

\* The accepted square-footage range of _extract_sqft.
MinSqft == 100

MaxSqft == 50000

\* r'([\d,]+)\s*(?:sq\.?\s*ft|sqft|square feet)'
sqft_pattern ==
    <<RPlus(RSet(DigitSet \cup {","})),
      RSeq(RStar(RSpace),
           RAlt(RSeqOf(<<RLit(<<"s","q">>), ROpt(RLit(<<".">>)), RStar(RSpace), RLit(<<"f","t">>)>>),
                RAltOf(<<<<"s","q","f","t">>, <<"s","q","u","a","r","e"," ","f","e","e","t">>>>)))>>

\* _extract_sqft(text): None, or the square footage.
ExtractSqft(text) ==
    The({ IF g = <<>> \/ RemoveChar(g[1], ",") = <<>> THEN <<>>
          ELSE IF /\ IntOf(RemoveChar(g[1], ",")) >= MinSqft
                  /\ IntOf(RemoveChar(g[1], ",")) <= MaxSqft
               THEN <<IntOf(RemoveChar(g[1], ","))>>
               ELSE <<>> :
          g \in {MatchOf(Lower(text), SearchGroup(REps, sqft_pattern[1],
                                                  sqft_pattern[2], Lower(text)))} })

\* _guess_property_type(text)
GuessPropertyType(text) ==
    LET low == Lower(text)
    IN  IF \E w \in {<<"l","a","n","d">>, <<"l","o","t">>, <<"a","c","r","e">>, <<"v","a","c","a","n","t">>} : Contains(low, w) THEN "Land"
        ELSE IF \E w \in {<<"c","o","m","m","e","r","c","i","a","l">>, <<"o","f","f","i","c","e">>} : Contains(low, w) THEN "Commercial"
        ELSE IF \E w \in {<<"h","o","u","s","e">>, <<"h","o","m","e">>, <<"b","e","d">>} : Contains(low, w) THEN "Residential"
        ELSE "Real Estate"

\* _identify_source(display_link, url)
IdentifySource(display_link) ==
    LET domain == Lower(display_link)
    IN  IF Contains(domain, <<"z","i","l","l","o","w">>) THEN "Zillow"
        ELSE IF Contains(domain, <<"r","e","a","l","t","o","r",".","c","o","m">>) THEN "Realtor.com"
        ELSE IF Contains(domain, <<"l","a","n","d","w","a","t","c","h">>) THEN "LandWatch"
        ELSE IF Contains(domain, <<"r","e","d","f","i","n">>) THEN "Redfin"
        ELSE "Real Estate Listing"

\* --------------------------------------------------- search-result items
\* A search result item is [title, snippet, link, displayLink], each a text.
\* A property record is
\*   [address, price, acres, bedrooms, bathrooms, sqft, property_type,
\*    source, source_url, search_date]
\* where a key the code does not set reads as None, as dict.get gives it.
\* The keys lot_size and description, which nothing reads, are left out.

\* Python truthiness of an Optional[str]: neither None nor ''.
Truthy(opt) == opt # <<>> /\ opt[1] # <<>>

\* title[:100] in _extract_property_details.
TitleCut == 100

\* Whether _extract_property_details(title, snippet, url, location) raises.
ExtractPropertyDetailsRaises(title, snippet) ==
    ExtractBedsBathsRaises(title \o <<" ">> \o snippet)

\* _extract_property_details without the test `if address or price > 0`.
ExtractPropertyDetailsUntested(title, snippet) ==
    The({ <<[address       |-> IF Truthy(address) THEN address[1]
                               ELSE Take(title, TitleCut),
             price         |-> ExtractPrice(title \o <<" ">> \o snippet),
             acres         |-> ExtractAcres(title \o <<" ">> \o snippet),
             bedrooms      |-> <<>>,
             bathrooms     |-> <<>>,
             sqft          |-> <<>>,
             property_type |-> "Land",
             source        |-> "",
             source_url    |-> <<>>,
             search_date   |-> <<>>]>> :
          address \in {ExtractAddress(title, snippet)} })

\* _extract_property_details(title, snippet, url, location), when it does
\* not raise: None, or the record.
ExtractPropertyDetails(title, snippet) ==
    The({ IF Truthy(address) \/ price > 0
          THEN <<[address       |-> IF Truthy(address) THEN address[1]
                                    ELSE Take(title, TitleCut),
                  price         |-> price,
                  acres         |-> ExtractAcres(combined_text),
                  bedrooms      |-> bb.beds,
                  bathrooms     |-> bb.baths,
                  sqft          |-> ExtractSqft(combined_text),
                  property_type |-> GuessPropertyType(combined_text),
                  source        |-> "",
                  source_url    |-> <<>>,
                  search_date   |-> <<>>]>>
          ELSE <<>> :
          combined_text \in {title \o <<" ">> \o snippet},
          price         \in {ExtractPrice(title \o <<" ">> \o snippet)},
          address       \in {ExtractAddress(title, snippet)},
          bb            \in {ExtractBedsBaths(title \o <<" ">> \o snippet)} })

\* The turn of the loop without the test of _contains_address_pattern.
ParseItemUngated(item, t) ==
    The({ IF /\ property_data # <<>>
             /\ property_data[1].address # <<>>
             /\ IsValidAddress(property_data[1].address)
          THEN <<[property_data[1] EXCEPT
                     !.source = IdentifySource(item.displayLink),
                     !.source_url = item.link,
                     !.search_date = <<t>>]>>
          ELSE <<>> :
          property_data \in {ExtractPropertyDetails(item.title, item.snippet)} })

\* The turn of the loop with a grade added to the record: High with an
\* address and a price, Low otherwise.
ParseItemGraded(item, t) ==
    IF ~ContainsAddressPattern(item.title \o <<" ">> \o item.snippet) THEN <<>>
    ELSE The({ IF /\ property_data # <<>>
                  /\ property_data[1].address # <<>>
                  /\ IsValidAddress(property_data[1].address)
               THEN <<[address       |-> property_data[1].address,
                       price         |-> property_data[1].price,
                       acres         |-> property_data[1].acres,
                       bedrooms      |-> property_data[1].bedrooms,
                       bathrooms     |-> property_data[1].bathrooms,
                       sqft          |-> property_data[1].sqft,
                       property_type |-> property_data[1].property_type,
                       source        |-> IdentifySource(item.displayLink),
                       source_url    |-> item.link,
                       search_date   |-> <<t>>,
                       confidence    |-> IF property_data[1].price > 0 THEN "High"
                                         ELSE "Low"]>>
               ELSE <<>> :
               property_data \in {ExtractPropertyDetails(item.title, item.snippet)} })

\* The turn of the loop without the test of _is_valid_address.
ParseItemUnvalidated(item, t) ==
    IF ~ContainsAddressPattern(item.title \o <<" ">> \o item.snippet) THEN <<>>
    ELSE The({ IF property_data # <<>> /\ property_data[1].address # <<>>
               THEN <<[property_data[1] EXCEPT
                          !.source = IdentifySource(item.displayLink),
                          !.source_url = item.link,
                          !.search_date = <<t>>]>>
               ELSE <<>> :
               property_data \in {ExtractPropertyDetails(item.title, item.snippet)} })

\* One turn of the loop of _parse_individual_listings: the records of
\* item, when datetime.utcnow() reads t.
ParseItem(item, t) ==
    IF ~ContainsAddressPattern(item.title \o <<" ">> \o item.snippet) THEN <<>>
    ELSE The({ IF /\ property_data # <<>>
                  /\ property_data[1].address # <<>>
                  /\ IsValidAddress(property_data[1].address)
               THEN <<[property_data[1] EXCEPT
                          !.source = IdentifySource(item.displayLink),
                          !.source_url = item.link,
                          !.search_date = <<t>>]>>
               ELSE <<>> :
               property_data \in {ExtractPropertyDetails(item.title, item.snippet)} })

\* Whether _parse_individual_listings(data, location) raises: an item that
\* passes the address gate and whose details cannot be extracted.
ParseIndividualListingsRaises(items) ==
    \E k \in DOMAIN items :
        /\ ContainsAddressPattern(items[k].title \o <<" ">> \o items[k].snippet)
        /\ ExtractPropertyDetailsRaises(items[k].title, items[k].snippet)

\* _parse_individual_listings(data, location), when it does not raise and
\* datetime.utcnow() reads t.
RECURSIVE ParseIndividualListings(_, _)
ParseIndividualListings(items, t) ==
    IF items = <<>> THEN <<>>
    ELSE ParseItem(Head(items), t) \o ParseIndividualListings(Tail(items), t)

\* ------------------------------------------------------- deduplication

\* str(n) for n >= 0.
RECURSIVE IntToText(_)
IntToText(n) ==
    IF n < 10 THEN <<DigitChars[n + 1]>>
    ELSE IntToText(n \div 10) \o <<DigitChars[(n % 10) + 1]>>

\* An identifier made of the address alone.
IdentifierAddressOnly(result) ==
    IF Strip(Lower(result.address)) # <<>>
    THEN <<Strip(Lower(result.address))>>
    ELSE <<>>

\* An identifier that falls back to the source and the price of a record
\* without address.
IdentifierWithFallback(result) ==
    IF Strip(Lower(result.address)) # <<>>
    THEN <<Strip(Lower(result.address)) \o <<"_">> \o IntToText(result.price)>>
    ELSE <<result.source_url \o <<"|">> \o IntToText(result.price)>>

\* The identifier of _deduplicate_results: None, or f"{address}_{price}"
\* with address = result.get('address', '').lower().strip().
Identifier(result) ==
    LET address == Strip(Lower(result.address))
    IN  IF address # <<>>
        THEN <<address \o <<"_">> \o IntToText(result.price)>>
        ELSE <<>>

\* The loop of _deduplicate_results from the element number i of `results`
\* on, given `seen`: the elements it appends to `unique`.
RECURSIVE DedupLoop(_, _, _)
DedupLoop(results, i, seen) ==
    IF i > Len(results) THEN <<>>
    ELSE The({ IF identifier # <<>> /\ identifier[1] \notin seen
               THEN <<results[i]>>
                    \o DedupLoop(results, i + 1, seen \cup {identifier[1]})
               ELSE DedupLoop(results, i + 1, seen) :
               identifier \in {Identifier(results[i])} })

\* The loop with unique.insert(0, result) for unique.append(result).
DedupPrepend(results) ==
    [i \in DOMAIN DedupLoop(results, 1, {}) |->
        DedupLoop(results, 1, {})[Len(DedupLoop(results, 1, {})) + 1 - i]]

\* A loop that keeps the last record of each identifier, not the first.
DedupKeepLast(results) ==
    LET ids == [i \in DOMAIN results |-> Identifier(results[i])]
        kept == {i \in DOMAIN results :
                    ids[i] # <<>> /\ \A j \in (i + 1)..Len(results) : ids[j] # ids[i]}
    IN  [n \in 1..Cardinality(kept) |->
            results[CHOOSE i \in kept : Cardinality({x \in kept : x < i}) = n - 1]]

\* _deduplicate_results(results)
DeduplicateResults(results) == DedupLoop(results, 1, {})

\* ------------------------------------------------------ query builder

\* str.split(c)
RECURSIVE Split(_, _)
Split(s, c) ==
    LET at == {i \in DOMAIN s : s[i] = c}
    IN  IF at = {} THEN <<s>>
        ELSE LET i == CHOOSE k \in at : \A j \in at : k <= j
             IN  <<SubSeq(s, 1, i - 1)>> \o Split(SubSeq(s, i + 1, Len(s)), c)

\* str.replace(a, b) for single characters a and b.
ReplaceChar(s, a, b) == [i \in DOMAIN s |-> IF s[i] = a THEN b ELSE s[i]]

\* str.startswith(pre)
StartsWith(s, pre) == Len(s) >= Len(pre) /\ SubSeq(s, 1, Len(pre)) = pre

\* Python truthiness of an Optional[int]: neither None nor 0.
TruthyInt(opt) == opt # <<>> /\ opt[1] # 0

\* A builder with the first two queries and the fifth only.
BuildIndividualListingQueriesShort(location, property_type, max_price) ==
    LET location_parts == Split(location, ",")
        city_county == Strip(location_parts[1])
        state == IF Len(location_parts) > 1 THEN Strip(location_parts[2]) ELSE <<>>
        q1 == <<"\"">> \o city_county \o <<"\""," ","a","d","d","r","e","s","s"," ">> \o property_type \o <<" ","f","o","r"," ","s","a","l","e">>
              \o (IF TruthyInt(max_price)
                  THEN <<" ","$">> \o IntToText(max_price[1] \div 1000) \o <<"k">>
                  ELSE <<>>)
        q5 == <<"\"">> \o city_county \o <<"\""," ">> \o state \o <<" ">> \o property_type
              \o <<" ","f","o","r"," ","s","a","l","e"," ","s","i","t","e",":","z","i","l","l","o","w",".","c","o","m"," ","O","R"," ","s","i","t","e",":","r","e","a","l","t","o","r",".","c","o","m">>
    IN  <<q1>> \o (IF state # <<>> THEN <<q5>> ELSE <<>>)

\* _build_individual_listing_queries(location, property_type, max_price)
BuildIndividualListingQueries(location, property_type, max_price) ==
    LET location_parts == Split(location, ",")
        city_county == Strip(location_parts[1])
        state == IF Len(location_parts) > 1 THEN Strip(location_parts[2]) ELSE <<>>
        q1 == IF TruthyInt(max_price)
              THEN <<"\"">> \o city_county \o <<"\""," ","a","d","d","r","e","s","s"," ">> \o property_type
                   \o <<" ","f","o","r"," ","s","a","l","e"," ","$">> \o IntToText(max_price[1] \div 1000) \o <<"k">>
              ELSE <<"\"">> \o city_county \o <<"\""," ","a","d","d","r","e","s","s"," ">> \o property_type
                   \o <<" ","f","o","r"," ","s","a","l","e">>
        q2 == <<"\"">> \o city_county \o <<"\""," ","\"","R","d","\""," ","O","R"," ","\"","S","t","\""," ","O","R"," ","\"","A","v","e","\""," ">> \o property_type
              \o <<" ","f","o","r"," ","s","a","l","e">>
        q3 == <<"\"">> \o city_county \o <<"\""," ","l","o","t"," ","O","R"," ","p","a","r","c","e","l"," ","a","d","d","r","e","s","s"," ">> \o property_type
              \o <<" ","z","i","l","l","o","w"," ","r","e","a","l","t","o","r">>
        q4 == city_county \o <<" ">> \o property_type \o <<" ","l","i","s","t","i","n","g"," ","a","d","d","r","e","s","s"," ","p","r","i","c","e">>
        q5 == <<"\"">> \o city_county \o <<"\""," ">> \o state \o <<" ">> \o property_type
              \o <<" ","f","o","r"," ","s","a","l","e"," ","s","i","t","e",":","z","i","l","l","o","w",".","c","o","m"," ","O","R"," ","s","i","t","e",":","r","e","a","l","t","o","r",".","c","o","m">>
    IN  <<q1, q2, q3, q4>> \o (IF state # <<>> THEN <<q5>> ELSE <<>>)

\* _build_aggregate_urls(location, property_type, max_price)
BuildAggregateUrls(location, max_price) ==
    LET location_slug == RemoveChar(ReplaceChar(Lower(location), " ", "-"), ",")
        zillow_url == <<"h","t","t","p","s",":","/","/","w","w","w",".","z","i","l","l","o","w",".","c","o","m","/">> \o location_slug \o <<"/","l","a","n","d","_","t","y","p","e","/">>
                      \o (IF TruthyInt(max_price)
                          THEN <<"0","-">> \o IntToText(max_price[1]) \o <<"_","p","r","i","c","e","/">>
                          ELSE <<>>)
        realtor_url == <<"h","t","t","p","s",":","/","/","w","w","w",".","r","e","a","l","t","o","r",".","c","o","m","/","r","e","a","l","e","s","t","a","t","e","a","n","d","h","o","m","e","s","-","s","e","a","r","c","h","/">>
                       \o location_slug \o <<"/","t","y","p","e","-","l","a","n","d">>
        landwatch_url == <<"h","t","t","p","s",":","/","/","w","w","w",".","l","a","n","d","w","a","t","c","h",".","c","o","m","/">> \o location_slug
                         \o <<"/","l","a","n","d","-","f","o","r","-","s","a","l","e">>
                         \o (IF TruthyInt(max_price)
                             THEN <<"?","p","r","i","c","e","_","m","a","x","=">> \o IntToText(max_price[1])
                             ELSE <<>>)
    IN  <<zillow_url, realtor_url, landwatch_url>>

\* ------------------------------------------------------- page parsers
\* A fetched page is the sequence of its listing cards, the elements that
\* find_all selects; a card is [address, price, acres_text, href, details]:
\* the text of its address element, of its price element, of its first text
\* node that mentions 'acre', its first link (each None when the card has no
\* such element), and the text of the whole card.

\* listings[:10], addresses[:10]
MaxListings == 10

\* One turn of the loop of _parse_zillow_html: the records of a listing; a
\* listing whose details raise is skipped by the except clause.
ParseZillowCard(card, url) ==
    LET address == IF card.address # <<>> THEN <<Strip(card.address[1])>> ELSE <<>>
        property_url ==
            IF Truthy(card.href) /\ ~StartsWith(card.href[1], <<"h","t","t","p">>)
            THEN <<<<"h","t","t","p","s",":","/","/","w","w","w",".","z","i","l","l","o","w",".","c","o","m">> \o card.href[1]>>
            ELSE card.href
    IN  IF ExtractBedsBathsRaises(card.details) THEN <<>>
        ELSE IF Truthy(address) /\ IsValidAddress(address[1])
        THEN The({ <<[address       |-> address[1],
                      price         |-> IF card.price # <<>>
                                        THEN ExtractPrice(card.price[1]) ELSE 0,
                      acres         |-> ExtractAcres(card.details),
                      bedrooms      |-> bb.beds,
                      bathrooms     |-> bb.baths,
                      sqft          |-> ExtractSqft(card.details),
                      property_type |-> GuessPropertyType(card.details),
                      source        |-> "Zillow",
                      source_url    |-> IF Truthy(property_url) THEN property_url[1]
                                        ELSE url,
                      search_date   |-> <<>>]>> :
                   bb \in {ExtractBedsBaths(card.details)} })
        ELSE <<>>

\* One turn of the loop of _parse_realtor_html.
ParseRealtorCard(card, url) ==
    LET address == IF card.address # <<>> THEN <<Strip(card.address[1])>> ELSE <<>>
    IN  IF Truthy(address) /\ IsValidAddress(address[1])
        THEN <<[address       |-> address[1],
                price         |-> IF card.price # <<>> THEN ExtractPrice(card.price[1])
                                  ELSE 0,
                acres         |-> <<>>,
                bedrooms      |-> <<>>,
                bathrooms     |-> <<>>,
                sqft          |-> <<>>,
                property_type |-> "Land",
                source        |-> "Realtor.com",
                source_url    |-> url,
                search_date   |-> <<>>]>>
        ELSE <<>>

\* One turn of the loop of _parse_landwatch_html.
ParseLandwatchCard(card, url) ==
    LET address == IF card.address # <<>> THEN <<Strip(card.address[1])>> ELSE <<>>
    IN  IF Truthy(address) /\ IsValidAddress(address[1])
        THEN <<[address       |-> address[1],
                price         |-> IF card.price # <<>> THEN ExtractPrice(card.price[1])
                                  ELSE 0,
                acres         |-> IF card.acres_text # <<>>
                                  THEN ExtractAcres(card.acres_text[1]) ELSE <<>>,
                bedrooms      |-> <<>>,
                bathrooms     |-> <<>>,
                sqft          |-> <<>>,
                property_type |-> "Land",
                source        |-> "LandWatch",
                source_url    |-> url,
                search_date   |-> <<>>]>>
        ELSE <<>>

\* The site of a URL as _scrape_listing_page tests it, in the order of its
\* if/elif chain.
SiteOf(url) ==
    IF Contains(url, <<"z","i","l","l","o","w",".","c","o","m">>) THEN "zillow"
    ELSE IF Contains(url, <<"r","e","a","l","t","o","r",".","c","o","m">>) THEN "realtor"
    ELSE IF Contains(url, <<"l","a","n","d","w","a","t","c","h",".","c","o","m">>) THEN "landwatch"
    ELSE "generic"

\* r'\d+\s+[A-Z][a-z]+(?:\s+[A-Z][a-z]+)*\s+(?:Rd|Road|St|...|Way)' of
\* _parse_generic_html
generic_suffixes ==
    << <<"R","d">>, <<"R","o","a","d">>, <<"S","t">>, <<"S","t","r","e","e","t">>, <<"A","v","e">>, <<"A","v","e","n","u","e">>, <<"D","r">>,
       <<"D","r","i","v","e">>, <<"L","n">>, <<"L","a","n","e">>, <<"C","t">>, <<"C","o","u","r","t">>, <<"B","l","v","d">>, <<"W","a","y">> >>

generic_pattern ==
    RSeqOf(<<RPlus(RDigit), RPlus(RSpace), RCapWord,
             RStar(RSeq(RPlus(RSpace), RCapWord)), RPlus(RSpace),
             RAltOf(generic_suffixes)>>)

\* re.findall(r, s): the non-overlapping matches, left to right.
RECURSIVE FindAllFrom(_, _, _)
FindAllFrom(r, s, i) ==
    LET m == SearchFrom(r, s, i)
    IN  IF m = <<>> THEN <<>>
        ELSE <<Group0(s, m[1])>>
             \o FindAllFrom(r, s, IF m[1].end > m[1].start THEN m[1].end
                                  ELSE m[1].end + 1)

\* One turn of the loop of _parse_generic_html.
ParseGenericAddress(address, url) ==
    IF IsValidAddress(address)
    THEN <<[address       |-> address,
            price         |-> 0,
            acres         |-> <<>>,
            bedrooms      |-> <<>>,
            bathrooms     |-> <<>>,
            sqft          |-> <<>>,
            property_type |-> "Land",
            source        |-> "Real Estate Listing",
            source_url    |-> url,
            search_date   |-> <<>>]>>
    ELSE <<>>

\* The parser _scrape_listing_page picks for url, applied to a page: the
\* first MaxListings cards (or addresses of the page text), one at a time.
RECURSIVE ParseCards(_, _, _)
ParseCards(site, cards, url) ==
    IF cards = <<>> THEN <<>>
    ELSE (CASE site = "zillow" -> ParseZillowCard(Head(cards), url)
            [] site = "realtor" -> ParseRealtorCard(Head(cards), url)
            [] site = "landwatch" -> ParseLandwatchCard(Head(cards), url)
            [] OTHER -> ParseGenericAddress(Head(cards), url))
         \o ParseCards(site, Tail(cards), url)

\* What _scrape_listing_page(url) returns on a 200 response whose body
\* parses: page.cards are the listing cards, page.text the visible text.
ParsePage(page, url) ==
    IF SiteOf(url) = "generic"
    THEN ParseCards("generic",
                    Take(FindAllFrom(generic_pattern, page.text, 1), MaxListings), url)
    ELSE ParseCards(SiteOf(url), Take(page.cards, MaxListings), url)

\* ------------------------------------------------ the modelled inputs
\* The arguments of a call and the upstream responses are drawn from the
\* pools below.

\* The number of ten-listing result pages with pairwise distinct addresses.
NumBigBodies == 3

\* The `num` parameter of the search request: the items of one response.
NumPerQuery == 10

\* The cards of a large listing page (more than MaxListings).
NumBigCards == 12

\* The street number of listing i of large page k.
StreetNo(k, i) == <<DigitChars[k + 1], DigitChars[(i \div 10) + 1], DigitChars[(i % 10) + 1]>>

MkItem(title, snippet, site) ==
    [title |-> title, snippet |-> snippet,
     link |-> <<"h","t","t","p","s",":","/","/">> \o site \o <<"/">> \o Take(title, 3), displayLink |-> site]

\* Ten individual listings, "k0i Oak St" at $90,000.
BigBody(k) ==
    [i \in 1..NumPerQuery |->
        MkItem(StreetNo(k, i - 1) \o <<" ","O","a","k"," ","S","t">>, <<"$","9","0",",","0","0","0">>, <<"w","w","w",".","z","i","l","l","o","w",".","c","o","m">>)]

\* Three valid listings with distinct addresses.
ThreeBody ==
    << MkItem(<<"5","0","0"," ","O","a","k"," ","S","t">>, <<"$","1","2","0",",","0","0","0">>, <<"w","w","w",".","z","i","l","l","o","w",".","c","o","m">>),
       MkItem(<<"1","2","3","4"," ","C","o","u","n","t","y"," ","R","o","a","d"," ","3","4","5",","," ","B","a","s","t","r","o","p",","," ","T","X"," ","-"," ","$","4","5",",","0","0","0",","," ","2",".","5"," ","a","c","r","e","s">>,
              <<"L","a","n","d"," ","f","o","r"," ","s","a","l","e">>, <<"w","w","w",".","l","a","n","d","w","a","t","c","h",".","c","o","m">>),
       MkItem(<<"7","7"," ","S","u","n","s","e","t"," ","B","l","v","d"," ","|"," ","R","e","d","f","i","n">>, <<"3"," ","b","d"," ","2"," ","b","a"," ","1",",","5","0","0"," ","s","q","f","t"," ","$","3","5","0",",","0","0","0">>,
              <<"w","w","w",".","r","e","d","f","i","n",".","c","o","m">>) >>

\* The same listing again, with two spaces in the address, and at another price.
DupsBody ==
    << MkItem(<<"5","0","0"," ","O","a","k"," ","S","t">>, <<"$","1","2","0",",","0","0","0">>, <<"w","w","w",".","r","e","a","l","t","o","r",".","c","o","m">>),
       MkItem(<<"5","0","0"," "," ","O","a","k"," ","S","t">>, <<"$","1","2","0",",","0","0","0">>, <<"w","w","w",".","r","e","a","l","t","o","r",".","c","o","m">>),
       MkItem(<<"5","0","0"," ","O","a","k"," ","S","t">>, <<"$","9","9",",","0","0","0">>, <<"w","w","w",".","r","e","a","l","t","o","r",".","c","o","m">>) >>

\* Category pages and noise: no item yields a record.
JunkBody ==
    << MkItem(<<"L","a","n","d"," ","i","n"," ","T","r","a","v","i","s"," ","C","o","u","n","t","y"," ","-"," ","2","5"," ","l","i","s","t","i","n","g","s">>, <<"B","r","o","w","s","e"," ","l","a","n","d">>,
              <<"w","w","w",".","l","a","n","d","w","a","t","c","h",".","c","o","m">>),
       MkItem(<<"P","r","o","p","e","r","t","i","e","s"," ","a","v","a","i","l","a","b","l","e"," ","i","n"," ","T","r","a","v","i","s"," ","C","o","u","n","t","y"," ","u","n","d","e","r"," ","$","5","0",",","0","0","0">>, <<>>,
              <<"w","w","w",".","z","i","l","l","o","w",".","c","o","m">>),
       MkItem(<<"L","a","n","d"," ","i","n"," ","B","a","s","t","r","o","p"," ","T","X"," ","L","O","T"," ","7">>, <<"$","3","0",",","0","0","0">>, <<"w","w","w",".","l","a","n","d","w","a","t","c","h",".","c","o","m">>),
       MkItem(<<"9"," ","E","l","m"," ","R","d">>, <<>>, <<"e","x","a","m","p","l","e",".","c","o","m">>) >>

\* A valid listing followed by one whose bathroom count is '.', on which
\* float() raises.
RaisingBody ==
    << MkItem(<<"6","4","0"," ","P","i","n","e"," ","R","d">>, <<"$","7","5",",","0","0","0">>, <<"w","w","w",".","z","i","l","l","o","w",".","c","o","m">>),
       MkItem(<<"U","n","i","t"," ","#","4"," ","S","t","."," ","B","a","r","b","a","r","a">>, <<"$","8","0",",","0","0","0">>, <<"w","w","w",".","z","i","l","l","o","w",".","c","o","m">>) >>

\* Two valid listings, the second with a price of 500 and an acreage of
\* 15,000 that the patterns match.
PairBody ==
    << MkItem(<<"2","1"," ","E","l","m"," ","A","v","e">>, <<"$","6","0",",","0","0","0"," ","1",".","5"," ","a","c","r","e","s">>, <<"w","w","w",".","l","a","n","d","w","a","t","c","h",".","c","o","m">>),
       MkItem(<<"2","2"," ","E","l","m"," ","A","v","e">>, <<"$","0",",","5","0","0"," ","a","n","d"," ","1","5","0","0","0"," ","a","c","r","e","s">>, <<"w","w","w",".","l","a","n","d","w","a","t","c","h",".","c","o","m">>) >>

\* The JSON bodies a search call may receive with status 200 and no error.
SearchBodies ==
    [k \in 1..NumBigBodies |-> BigBody(k)]
    \o <<ThreeBody, DupsBody, JunkBody, RaisingBody, PairBody, <<>>>>

MkCard(address, price, acres_text, href, details) ==
    [address |-> address, price |-> price, acres_text |-> acres_text,
     href |-> href, details |-> details]

\* NumBigCards cards, "k0i Oak St" at $90,000 on 5 acres, padded as scraped.
BigPage(k) ==
    [i \in 1..NumBigCards |->
        MkCard(<<<<" ">> \o StreetNo(k, i - 1) \o <<" ","O","a","k"," ","S","t"," ">>>>, <<<<"$","9","0",",","0","0","0">>>>,
               <<<<"5"," ","a","c","r","e","s">>>>, <<<<"/","h","o","m","e","d","e","t","a","i","l","s","/">> \o StreetNo(k, i - 1)>>,
               StreetNo(k, i - 1) \o <<" ","O","a","k"," ","S","t"," ","$","9","0",",","0","0","0"," ","5"," ","a","c","r","e","s">>)]

\* A page with few cards: repeats of a search listing (one in capitals), a
\* card without address, a category label, a card whose details raise, and
\* a card with a price and an acreage out of range.
FewPage ==
    << MkCard(<<<<"5","0","0"," ","O","a","k"," ","S","t">>>>, <<<<"$","1","2","0",",","0","0","0">>>>, <<>>, <<>>, <<"5","0","0"," ","O","a","k"," ","S","t"," ","$","1","2","0",",","0","0","0">>),
       MkCard(<<<<"5","0","0"," ","O","A","K"," ","S","T">>>>, <<<<"$","1","2","0",",","0","0","0">>>>, <<>>, <<<<"h","t","t","p","s",":","/","/","z",".","c","o","/","5">>>>,
              <<"5","0","0"," ","O","A","K"," ","S","T"," ","$","1","2","0",",","0","0","0">>),
       MkCard(<<>>, <<<<"$","1","0",",","0","0","0">>>>, <<>>, <<>>, <<"$","1","0",",","0","0","0">>),
       MkCard(<<<<"L","a","n","d"," ","i","n"," ","T","r","a","v","i","s"," ","C","o","u","n","t","y"," ","7","8","6","0","2">>>>, <<>>, <<>>, <<>>,
              <<"L","a","n","d"," ","i","n"," ","T","r","a","v","i","s"," ","C","o","u","n","t","y"," ","7","8","6","0","2">>),
       MkCard(<<<<" "," ","8","8"," ","L","a","k","e"," ","D","r",","," ","A","u","s","t","i","n"," ">>>>, <<>>, <<<<"1","2"," ","a","c","r","e","s">>>>, <<>>,
              <<"8","8"," ","L","a","k","e"," ","D","r",","," ","A","u","s","t","i","n"," ","."," ","b","a"," ","1","2"," ","a","c","r","e","s">>),
       MkCard(<<<<"1","2"," ","H","i","l","l"," ","C","t",","," ","B","a","s","t","r","o","p">>>>, <<<<"$","0",",","5","0","0">>>>, <<<<"1","5","0","0","0"," ","a","c","r","e","s">>>>, <<<<>>>>,
              <<"1","2"," ","H","i","l","l"," ","C","t",","," ","B","a","s","t","r","o","p"," ","$","0",",","5","0","0"," ","1","5","0","0","0"," ","a","c","r","e","s">>) >>

\* The pages a fetch may receive with status 200: their listing cards.
Pages ==
    [k \in 1..NumBigBodies |-> [cards |-> BigPage(k), text |-> <<>>]]
    \o <<[cards |-> FewPage, text |-> <<>>], [cards |-> <<>>, text |-> <<>>]>>

\* The arguments of search_properties: (location, property_type, max_price).
Inputs ==
    { [location |-> <<"B","a","s","t","r","o","p",","," ","T","X">>, property_type |-> <<"l","a","n","d">>, max_price |-> <<45000>>],
      [location |-> <<"T","r","a","v","i","s"," ","C","o","u","n","t","y">>, property_type |-> <<"l","a","n","d">>, max_price |-> <<>>] }

\* ------------------------------------------------------------ the state

VARIABLES
    google_api_key,  \* self.google_api_key is set
    google_cse_id,   \* self.google_cse_id is set
    pc,              \* where the call of search_properties stands
    args,            \* its arguments
    queries,         \* _search_individual_listings: queries
    qi,              \* ... the index of the query of the current turn
    all_results,     \* ... all_results, then individual_results of the caller
    urls,            \* _fetch_from_aggregate_pages: urls
    ui,              \* ... the index of the URL of the current turn
    scraped,         \* ... results, then aggregate_results of the caller
    results,         \* search_properties: results
    returned,        \* the list search_properties returned
    calls,           \* history: the requests issued, in order
    last,            \* history: how the last request ended
    failed,          \* history: the number of failed requests of each tier
    data,            \* _parse_individual_listings: the items of data
    now,             \* what datetime.utcnow() reads
    twin,            \* the frame of a second call, suspended on the same client
    upstream,        \* what the two calls are given: arguments and responses
    extractions,     \* what _extract_and_store_data assigns, by message
    contexts,        \* ContextManager.contexts: user id -> profile, sessions
    chat             \* the /api/chat request in progress

vars == <<google_api_key, google_cse_id, pc, args, queries, qi, all_results,
          urls, ui, scraped, results, returned, calls, last, failed,
          data, now, twin, upstream, extractions, contexts, chat>>

\* What the steps of one call of search_properties leave alone: the body
\* under parse outside a step is none, the clock is read and not set, and
\* the frame of a suspended call and the upstream are out of reach.
outside == <<data, now, twin, upstream, extractions, contexts, chat>>

\* ------------------------------------------------- the search pipeline

\* queries[:3] and urls[:3]
MaxQueries == 3

MaxUrls == 3

\* `if len(results) < 5` in search_properties
MinResults == 5

\* unique_results[:20]
MaxResults == 20

\* The ways a search call can end.  "exception" is a connection error
\* raised by session.get, "timeout" the asyncio.TimeoutError of the
\* ClientTimeout, "non200" a response whose status is not 200, "bad_json" a
\* body on which response.json() raises, "error_body" a JSON body with an
\* 'error' key, "ok" a JSON body without one.
SearchFailures == {"exception", "timeout", "non200", "bad_json", "error_body"}

SearchResponses ==
    [kind : SearchFailures, body : {0}] \cup [kind : {"ok"}, body : DOMAIN SearchBodies]

\* The ways a page fetch can end.  "bad_html" is a body on which
\* response.text() or BeautifulSoup raises.
FetchFailures == {"exception", "timeout", "non200", "bad_html"}

FetchResponses ==
    [kind : FetchFailures, page : {0}] \cup [kind : {"ok"}, page : DOMAIN Pages]

\* The parse of every pool body, computed once: whether
\* _parse_individual_listings raises on it, and the records it returns
\* when the clock reads 0.
RECURSIVE ParsedBodiesUpTo(_)
ParsedBodiesUpTo(n) ==
    IF n = 0 THEN <<>>
    ELSE Append(ParsedBodiesUpTo(n - 1),
                [raises  |-> ParseIndividualListingsRaises(SearchBodies[n]),
                 records |-> ParseIndividualListings(SearchBodies[n], 0)])

ParsedBodies == ParsedBodiesUpTo(Len(SearchBodies))

\* The query loop with a stop once 15 candidates are accumulated.
HasNextQueryEarlyStop(qs, i) ==
    i <= Len(Take(qs, MaxQueries)) /\ Len(all_results) < 15

\* The query loop with a batch deadline: no turn once the clock has
\* reached its last reading.
HasNextQueryBeforeDeadline(qs, i) ==
    i <= Len(Take(qs, MaxQueries)) /\ now < 1

\* The query loop over all the queries of the builder.
HasNextQueryNoCut(qs, i) == i <= Len(qs)

\* `for query in queries[:3]`: whether the loop has a turn number i.
HasNextQuery(qs, i) == i <= Len(Take(qs, MaxQueries))

\* `for url in urls[:3]`: whether the loop has a turn number i.
HasNextUrl(us, i) == i <= Len(Take(us, MaxUrls))

\* `break` for `continue`: no turn follows.
AfterFailedQueryBreak(i) == Len(queries) + 1

\* A retry in place: the failed turn runs again.
AfterFailedQueryRetry(i) == i

\* `continue` in the turn number i of the query loop: the number of the
\* turn that follows.
AfterFailedQuery(i) == i + 1

\* The threshold test with `<=` for `<`.
FewResultsInclusive(rs) == Len(rs) <= MinResults

\* `if len(results) < 5`: whether the page tier is to run.
FewResults(rs) == Len(rs) < MinResults

\* `results = listings` for results.extend(listings).
ExtendResultsAssign(rs, listings) == listings

\* results.extend(listings) in _fetch_from_aggregate_pages
ExtendResults(rs, listings) == rs \o listings

\* A cut one record too late.
FirstResultsOffByOne(unique_results) == Take(unique_results, MaxResults + 1)

\* unique_results[:20]
FirstResults(unique_results) == Take(unique_results, MaxResults)

\* The exception, if any, that the try block of _search_individual_listings
\* raises on a response: None, or the name of its class.
SearchRaises(resp) ==
    CASE resp.kind = "exception" -> <<"ClientError">>
      [] resp.kind = "timeout" -> <<"TimeoutError">>
      [] resp.kind = "bad_json" -> <<"ValueError">>
      [] resp.kind = "ok" /\ ParsedBodies[resp.body].raises -> <<"ValueError">>
      [] OTHER -> <<>>

\* The records of a parse as they are when datetime.utcnow() reads t: the
\* clock enters a record through search_date only.
AtTime(records, t) ==
    [i \in DOMAIN records |-> [records[i] EXCEPT !.search_date = <<t>>]]

\* The records the try block adds to all_results on a response.
SearchRecords(resp) ==
    IF resp.kind = "ok" /\ SearchRaises(resp) = <<>>
    THEN AtTime(ParsedBodies[resp.body].records, now)
    ELSE <<>>

\* The exception, if any, that the try block of _scrape_listing_page raises.
FetchRaises(resp) ==
    CASE resp.kind = "exception" -> <<"ClientError">>
      [] resp.kind = "timeout" -> <<"TimeoutError">>
      [] resp.kind = "bad_html" -> <<"ValueError">>
      [] OTHER -> <<>>

\* Handlers that name the connection and value errors, not the timeout.
CaughtClassesNoTimeout == {"ClientError", "ValueError"}

\* `except Exception`: the classes the handlers of both tiers catch.
CaughtClasses == {"ClientError", "TimeoutError", "ValueError"}

\* A handler that names the connection error only.
SearchCatchesClientErrorOnly(exc) == exc = "ClientError"

\* The except clause of the loop of _search_individual_listings.
SearchCatches(exc) == exc \in CaughtClasses

\* The except clause of _scrape_listing_page.
FetchCatches(exc) == exc \in CaughtClasses

\* The except clause of the loop of _fetch_from_aggregate_pages.
FetchLoopCatches(exc) == exc \in CaughtClasses

\* Every URL the URL builder gives on the modelled inputs, in some order.
RECURSIVE SeqOfSet(_)
SeqOfSet(S) ==
    IF S = {} THEN <<>>
    ELSE LET x == CHOOSE y \in S : TRUE IN <<x>> \o SeqOfSet(S \ {x})

AllUrls ==
    SeqOfSet(UNION {Range(BuildAggregateUrls(a.location, a.max_price)) : a \in Inputs})

\* The parse of every pool page under every URL, computed once.
RECURSIVE ParsedPagesUpTo(_, _)
ParsedPagesUpTo(url, n) ==
    IF n = 0 THEN <<>>
    ELSE Append(ParsedPagesUpTo(url, n - 1), ParsePage(Pages[n], url))

RECURSIVE ParsedUrlsUpTo(_)
ParsedUrlsUpTo(n) ==
    IF n = 0 THEN <<>>
    ELSE Append(ParsedUrlsUpTo(n - 1), ParsedPagesUpTo(AllUrls[n], Len(Pages)))

ParsedPages == ParsedUrlsUpTo(Len(AllUrls))

\* The listings _scrape_listing_page(url) returns on a response whose try
\* block ends without an exception.
ScrapeListingPage(resp, url) ==
    IF resp.kind = "ok"
    THEN ParsedPages[CHOOSE n \in DOMAIN AllUrls : AllUrls[n] = url][resp.page]
    ELSE <<>>

NoArgs == [location |-> <<>>, property_type |-> <<>>, max_price |-> <<>>]

NoLast == [tier |-> "none", kind |-> "none", raised |-> <<>>]

\* The frame of a call that has not started.
NoFrame ==
    [pc |-> "idle", args |-> NoArgs, queries |-> <<>>, qi |-> 0,
     all_results |-> <<>>, urls |-> <<>>, ui |-> 0, scraped |-> <<>>,
     results |-> <<>>, returned |-> <<>>]

NoUpstream == [args |-> NoArgs, search |-> <<>>, fetch |-> <<>>]

\* self.contexts = {}: no user is known.
NoContexts == <<>>

\* No /api/chat request is in progress.
NoChat ==
    [pc |-> "idle", user_id |-> "", session_id |-> "", message |-> <<>>,
     user_profile |-> <<>>, search_results |-> <<>>, response |-> <<>>,
     found |-> <<>>, base |-> 0, searches |-> 0, completions |-> 0, served |-> 0,
     held |-> <<>>, raised |-> FALSE, ok |-> FALSE, search_client |-> TRUE]

\* The client after __init__: the credentials are whatever the environment
\* holds; no call is in progress.
Init ==
    /\ google_api_key \in BOOLEAN
    /\ google_cse_id \in BOOLEAN
    /\ pc = "idle"
    /\ args = NoArgs
    /\ queries = <<>>
    /\ qi = 0
    /\ all_results = <<>>
    /\ urls = <<>>
    /\ ui = 0
    /\ scraped = <<>>
    /\ results = <<>>
    /\ returned = <<>>
    /\ calls = <<>>
    /\ last = NoLast
    /\ failed = [search |-> 0, fetch |-> 0]
    /\ data = <<>>
    /\ now = 0
    /\ twin = NoFrame
    /\ upstream = NoUpstream
    /\ extractions = <<>>
    /\ contexts = NoContexts
    /\ chat = NoChat

\* The entry of search_properties without the credentials test.
CallUnchecked(a) ==
    /\ pc = "idle"
    /\ args' = a
    /\ results' = <<>>
    /\ queries' = BuildIndividualListingQueries(a.location, a.property_type,
                                                a.max_price)
    /\ all_results' = <<>>
    /\ qi' = 1
    /\ pc' = "search_loop"
    /\ UNCHANGED <<google_api_key, google_cse_id, urls, ui, scraped, returned,
                   calls, last, failed>>
    /\ UNCHANGED outside

\* The entry of search_properties with the threshold test outside the
\* credentials test: without credentials the page tier runs.
CallPageTierWithoutCredentials(a) ==
    /\ pc = "idle"
    /\ args' = a
    /\ results' = <<>>
    /\ IF google_api_key /\ google_cse_id
       THEN /\ queries' = BuildIndividualListingQueries(a.location, a.property_type,
                                                        a.max_price)
            /\ all_results' = <<>>
            /\ qi' = 1
            /\ pc' = "search_loop"
            /\ UNCHANGED <<urls, ui, scraped>>
       ELSE /\ urls' = BuildAggregateUrls(a.location, a.max_price)
            /\ scraped' = <<>>
            /\ ui' = 1
            /\ pc' = "fetch_loop"
            /\ UNCHANGED <<queries, all_results, qi>>
    /\ UNCHANGED <<google_api_key, google_cse_id, returned, calls, last, failed>>
    /\ UNCHANGED outside

\* search_properties(location, property_type, max_price) up to the
\* credentials test: with both credentials the search tier starts and builds
\* its queries, without them the call goes straight to deduplication.
Call(a) ==
    /\ pc = "idle"
    /\ args' = a
    /\ results' = <<>>
    /\ IF google_api_key /\ google_cse_id
       THEN /\ queries' = BuildIndividualListingQueries(a.location, a.property_type,
                                                        a.max_price)
            /\ all_results' = <<>>
            /\ qi' = 1
            /\ pc' = "search_loop"
       ELSE /\ pc' = "dedup"
            /\ UNCHANGED <<queries, all_results, qi>>
    /\ UNCHANGED <<google_api_key, google_cse_id, urls, ui, scraped, returned,
                   calls, last, failed>>
    /\ UNCHANGED outside

\* One turn of `for query in queries[:3]`: the request is sent.
IssueQuery ==
    /\ pc = "search_loop"
    /\ HasNextQuery(queries, qi)
    /\ calls' = Append(calls, [tier |-> "search", target |-> queries[qi]])
    /\ pc' = "search_wait"
    /\ UNCHANGED <<google_api_key, google_cse_id, args, queries, qi, all_results,
                   urls, ui, scraped, results, returned, last, failed>>
    /\ UNCHANGED outside

\* The try block with the sleep after every answer, whatever its outcome.
SearchResponseAlwaysSleeps(resp) ==
    /\ pc = "search_wait"
    /\ \E out \in {[raises |-> SearchRaises(resp), records |-> SearchRecords(resp)]} :
       /\ last' = [tier |-> "search", kind |-> resp.kind, raised |-> out.raises]
       /\ failed' = [failed EXCEPT !.search =
                        @ + (IF resp.kind # "ok" \/ out.raises # <<>> THEN 1 ELSE 0)]
       /\ IF out.raises # <<>> /\ ~SearchCatches(out.raises[1])
          THEN /\ pc' = "raised"
               /\ UNCHANGED <<qi, all_results>>
          ELSE /\ all_results' = all_results \o out.records
               /\ pc' = "search_sleep"
               /\ UNCHANGED qi
    /\ UNCHANGED <<google_api_key, google_cse_id, args, queries, urls, ui, scraped,
                   results, returned, calls>>
    /\ UNCHANGED outside

\* The request ends: the try block runs on the response.  An exception the
\* handler catches, a status that is not 200 and an error body all go on
\* to the next query; a parsed body extends all_results and sleeps.
SearchResponse(resp) ==
    /\ pc = "search_wait"
    /\ \E out \in {[raises |-> SearchRaises(resp), records |-> SearchRecords(resp)]} :
       /\ last' = [tier |-> "search", kind |-> resp.kind, raised |-> out.raises]
       /\ failed' = [failed EXCEPT !.search =
                        @ + (IF resp.kind # "ok" \/ out.raises # <<>> THEN 1 ELSE 0)]
       /\ IF out.raises # <<>>
          THEN IF SearchCatches(out.raises[1])
               THEN /\ pc' = "search_loop"
                    /\ qi' = AfterFailedQuery(qi)
                    /\ UNCHANGED all_results
               ELSE /\ pc' = "raised"
                    /\ UNCHANGED <<qi, all_results>>
          ELSE IF resp.kind = "error_body"
          THEN /\ pc' = "search_loop"
               /\ qi' = AfterFailedQuery(qi)
               /\ UNCHANGED all_results
          ELSE IF resp.kind = "ok"
          THEN /\ all_results' = all_results \o out.records
               /\ pc' = "search_sleep"
               /\ UNCHANGED qi
          ELSE /\ pc' = "search_loop"
               /\ qi' = qi + 1
               /\ UNCHANGED all_results
    /\ UNCHANGED <<google_api_key, google_cse_id, args, queries, urls, ui, scraped,
                   results, returned, calls>>
    /\ UNCHANGED outside

\* await asyncio.sleep(0.5) ends: the next turn of the loop.
SleepDone ==
    /\ pc = "search_sleep"
    /\ qi' = qi + 1
    /\ pc' = "search_loop"
    /\ UNCHANGED <<google_api_key, google_cse_id, args, queries, all_results, urls,
                   ui, scraped, results, returned, calls, last, failed>>
    /\ UNCHANGED outside

\* _search_individual_listings returns; search_properties extends results
\* and tests `len(results) < 5`: the page tier starts and builds its URLs,
\* or the call goes on to deduplication.
SearchReturn ==
    /\ pc = "search_loop"
    /\ ~HasNextQuery(queries, qi)
    /\ results' = results \o all_results
    /\ IF FewResults(results')
       THEN /\ urls' = BuildAggregateUrls(args.location, args.max_price)
            /\ scraped' = <<>>
            /\ ui' = 1
            /\ pc' = "fetch_loop"
       ELSE /\ pc' = "dedup"
            /\ UNCHANGED <<urls, scraped, ui>>
    /\ UNCHANGED <<google_api_key, google_cse_id, args, queries, qi, all_results,
                   returned, calls, last, failed>>
    /\ UNCHANGED outside

\* One turn of `for url in urls[:3]`: the page is requested.
IssueFetch ==
    /\ pc = "fetch_loop"
    /\ HasNextUrl(urls, ui)
    /\ calls' = Append(calls, [tier |-> "fetch", target |-> urls[ui]])
    /\ pc' = "fetch_wait"
    /\ UNCHANGED <<google_api_key, google_cse_id, args, queries, qi, all_results,
                   urls, ui, scraped, results, returned, last, failed>>
    /\ UNCHANGED outside

\* The fetch ends: _scrape_listing_page returns the listings of the page,
\* or [] on a status that is not 200 and on an exception it catches; the
\* caller extends its results and goes on to the next URL.  An exception
\* that leaves _scrape_listing_page is caught by the loop of the caller,
\* which goes on to the next URL without extending.
FetchResponse(resp) ==
    /\ pc = "fetch_wait"
    /\ LET exc == FetchRaises(resp) IN
       /\ last' = [tier |-> "fetch", kind |-> resp.kind, raised |-> exc]
       /\ failed' = [failed EXCEPT !.fetch = @ + (IF resp.kind # "ok" THEN 1 ELSE 0)]
       /\ IF exc # <<>> /\ ~FetchCatches(exc[1])
          THEN IF FetchLoopCatches(exc[1])
               THEN /\ pc' = "fetch_loop"
                    /\ ui' = ui + 1
                    /\ UNCHANGED scraped
               ELSE /\ pc' = "raised"
                    /\ UNCHANGED <<scraped, ui>>
          ELSE /\ scraped' = ExtendResults(scraped, ScrapeListingPage(resp, urls[ui]))
               /\ pc' = "fetch_loop"
               /\ ui' = ui + 1
    /\ UNCHANGED <<google_api_key, google_cse_id, args, queries, qi, all_results,
                   urls, results, returned, calls>>
    /\ UNCHANGED outside

\* _fetch_from_aggregate_pages returns; search_properties extends results.
FetchReturn ==
    /\ pc = "fetch_loop"
    /\ ~HasNextUrl(urls, ui)
    /\ results' = results \o scraped
    /\ pc' = "dedup"
    /\ UNCHANGED <<google_api_key, google_cse_id, args, queries, qi, all_results,
                   urls, ui, scraped, returned, calls, last, failed>>
    /\ UNCHANGED outside

\* The end of search_properties: deduplicate, cut to MaxResults, return.
Return ==
    /\ pc = "dedup"
    /\ returned' = FirstResults(DeduplicateResults(results))
    /\ pc' = "done"
    /\ UNCHANGED <<google_api_key, google_cse_id, args, queries, qi, all_results,
                   urls, ui, scraped, results, calls, last, failed>>
    /\ UNCHANGED outside

Next ==
    \/ \E a \in Inputs : Call(a)
    \/ IssueQuery
    \/ \E resp \in SearchResponses : SearchResponse(resp)
    \/ SleepDone
    \/ SearchReturn
    \/ IssueFetch
    \/ \E resp \in FetchResponses : FetchResponse(resp)
    \/ FetchReturn
    \/ Return

Spec == Init /\ [][Next]_vars

\* ------------------------------------------ the Deduplicator on its own
\* _deduplicate_results is also specified as a function of any list of
\* candidates: the specification SpecDedup calls it on lists drawn from
\* the candidates below, among them records without address.

\* The longest list of candidates SpecDedup draws.
MaxCandidates == 3

Candidate(address, price, source, source_url) ==
    [address |-> address, price |-> price, acres |-> <<>>, bedrooms |-> <<>>,
     bathrooms |-> <<>>, sqft |-> <<>>, property_type |-> "Land",
     source |-> source, source_url |-> source_url, search_date |-> <<>>]

Candidates ==
    { Candidate(<<>>, 50000, "Zillow", <<"h","t","t","p","s",":","/","/","w","w","w",".","z","i","l","l","o","w",".","c","o","m","/","a">>),
      Candidate(<<>>, 50000, "Zillow", <<"h","t","t","p","s",":","/","/","w","w","w",".","z","i","l","l","o","w",".","c","o","m","/","b">>),
      Candidate(<<>>, 50000, "LandWatch", <<"h","t","t","p","s",":","/","/","w","w","w",".","l","a","n","d","w","a","t","c","h",".","c","o","m","/","a">>),
      Candidate(<<" "," "," ">>, 0, "Zillow", <<"h","t","t","p","s",":","/","/","w","w","w",".","z","i","l","l","o","w",".","c","o","m","/","c">>),
      Candidate(<<"9"," ","E","l","m"," ","R","d",","," ","B","a","s","t","r","o","p">>, 50000, "Zillow", <<"h","t","t","p","s",":","/","/","w","w","w",".","z","i","l","l","o","w",".","c","o","m","/","d">>),
      Candidate(<<" ","9"," ","E","L","M"," ","R","D",","," ","B","a","s","t","r","o","p"," ">>, 50000, "LandWatch", <<"h","t","t","p","s",":","/","/","w","w","w",".","l","a","n","d","w","a","t","c","h",".","c","o","m","/","d">>) }

CandidateLists == UNION {[1..n -> Candidates] : n \in 0..MaxCandidates}

\* A caller is about to call _deduplicate_results(results).
InitDedup ==
    /\ google_api_key = FALSE
    /\ google_cse_id = FALSE
    /\ pc = "dedup_call"
    /\ args = NoArgs
    /\ queries = <<>>
    /\ qi = 0
    /\ all_results = <<>>
    /\ urls = <<>>
    /\ ui = 0
    /\ scraped = <<>>
    /\ results \in CandidateLists
    /\ returned = <<>>
    /\ calls = <<>>
    /\ last = NoLast
    /\ failed = [search |-> 0, fetch |-> 0]
    /\ data = <<>>
    /\ now = 0
    /\ twin = NoFrame
    /\ upstream = NoUpstream
    /\ extractions = <<>>
    /\ contexts = NoContexts
    /\ chat = NoChat

\* _deduplicate_results(results) returns `unique`.
Deduplicate ==
    /\ pc = "dedup_call"
    /\ returned' = DeduplicateResults(results)
    /\ pc' = "dedup_return"
    /\ UNCHANGED <<google_api_key, google_cse_id, args, queries, qi, all_results,
                   urls, ui, scraped, results, calls, last, failed>>
    /\ UNCHANGED outside

NextDedup == Deduplicate

SpecDedup == InitDedup /\ [][NextDedup]_vars

\* -------------------------------- _parse_individual_listings on its own
\* The parser of the search tier is also specified as a function of any
\* response body: the specification SpecParse calls it on one-item bodies
\* whose title and snippet are drawn from the texts below.

\* The character U+2014 (an em dash), which no class of the patterns holds.
EmDash == "u2014"

\* The number of titles "LOT k Farm", of TitleMinLen characters.
NumLots == 2

Titles ==
    { <<>>,
      <<"L","a","n","d"," ","f","o","r"," ","s","a","l","e"," ","i","n"," ","B","a","s","t","r","o","p">>,
      <<"1","2","3","4"," ","C","o","u","n","t","y"," ","R","o","a","d"," ","3","4","5",","," ","B","a","s","t","r","o","p",","," ","T","X"," ",EmDash," ","$","4","5",",","0","0","0",","," ","2",".","5"," ","a","c","r","e","s">>,
      <<"L","a","n","d"," ","i","n"," ","B","a","s","t","r","o","p"," ","T","X"," ","L","O","T"," ","7">>,
      <<"5","0","0"," ","O","a","k"," ","S","t">>,
      <<"B","i","g"," ","S","k","y"," ","R","a","n","c","h"," ","4","0">>,
      <<"1","2","3","4"," ","C","o","u","n","t","y"," ","R","o","a","d"," ","3","4","5">> }
    \cup { <<"L","O","T"," ">> \o <<DigitChars[k + 1]>> \o <<" ","F","a","r","m">> : k \in 1..NumLots }

Snippets ==
    { <<>>,
      <<"1","2","3","4"," ","C","o","u","n","t","y"," ","R","o","a","d"," ","3","4","5",","," ","B","a","s","t","r","o","p",","," ","T","X"," ",EmDash," ","$","4","5",",","0","0","0",","," ","2",".","5"," ","a","c","r","e","s">>,
      <<"$","3","0",",","0","0","0"," ","2",".","5"," ","a","c","r","e","s">>,
      <<"#","4"," ","$","3","0",",","0","0","0">>,
      <<"$","0",",","5","0","0"," ","a","n","d"," ","1","5","0","0","0"," ","a","c","r","e","s">>,
      <<"$","5","0","0",",","0","0","0",",","0","0","0"," ","o","r"," ","$","4","5","0","0","0",","," ","2","0","0","0","0"," ","a","c","r","e","s"," ","o","r"," ","5"," ","a","c">>,
      <<"$","1","2","0",",","0","0","0">>,
      <<"p","r","o","p","e","r","t","y"," ","l","i","s","t","i","n","g"," ","f","o","r"," ","s","a","l","e">> }

DisplayLinks == { <<"w","w","w",".","z","i","l","l","o","w",".","c","o","m">>, <<"e","x","a","m","p","l","e",".","c","o","m">> }

\* data.get('items', []) of the bodies SpecParse parses.
ParseInputs ==
    { <<MkItem(title, snippet, site)>> :
        title \in Titles, snippet \in Snippets, site \in DisplayLinks }

\* A caller is about to call _parse_individual_listings(data, location).
InitParse ==
    /\ google_api_key = TRUE
    /\ google_cse_id = TRUE
    /\ pc = "parse_call"
    /\ args = NoArgs
    /\ queries = <<>>
    /\ qi = 0
    /\ all_results = <<>>
    /\ urls = <<>>
    /\ ui = 0
    /\ scraped = <<>>
    /\ results = <<>>
    /\ returned = <<>>
    /\ calls = <<>>
    /\ last = NoLast
    /\ failed = [search |-> 0, fetch |-> 0]
    /\ data \in ParseInputs
    /\ now = 0
    /\ twin = NoFrame
    /\ upstream = NoUpstream
    /\ extractions = <<>>
    /\ contexts = NoContexts
    /\ chat = NoChat

\* _parse_individual_listings(data, location) returns its `results`, or an
\* exception of _extract_property_details leaves it.
ParseListings ==
    /\ pc = "parse_call"
    /\ IF ParseIndividualListingsRaises(data)
       THEN /\ pc' = "parse_raised"
            /\ UNCHANGED results
       ELSE /\ results' = ParseIndividualListings(data, now)
            /\ pc' = "parse_return"
    /\ UNCHANGED <<google_api_key, google_cse_id, args, queries, qi, all_results,
                   urls, ui, scraped, returned, calls, last, failed>>
    /\ UNCHANGED outside

NextParse == ParseListings

SpecParse == InitParse /\ [][NextParse]_vars

\* --------------------------------------------- two calls on one client
\* search_properties is a coroutine: a second call on the same client can
\* run while the first is suspended at an await.  The specification
\* SpecPair runs two calls with the same arguments against an upstream that
\* answers the query number i and the URL number i the same way for both.
\* The variables of the call hold the frame of the call that runs; `twin`
\* holds the frame of the other one.

\* The last reading of the clock.
MaxClock == 1

\* The frame of the call that runs.
Frame ==
    [pc |-> pc, args |-> args, queries |-> queries, qi |-> qi,
     all_results |-> all_results, urls |-> urls, ui |-> ui, scraped |-> scraped,
     results |-> results, returned |-> returned]

\* Where a call can be when the other one runs: not started, at one of
\* its awaits (session.get, asyncio.sleep), or returned.
Suspended ==
    {"idle", "search_wait", "search_sleep", "fetch_wait", "done"}

BodyIndex(body) == CHOOSE k \in DOMAIN SearchBodies : SearchBodies[k] = body

PageIndex(cards) == CHOOSE k \in DOMAIN Pages : Pages[k].cards = cards

SearchOk(body) == [kind |-> "ok", body |-> BodyIndex(body)]

SearchFailed(kind) == [kind |-> kind, body |-> 0]

FetchOk(cards) == [kind |-> "ok", page |-> PageIndex(cards)]

FetchFailed(kind) == [kind |-> kind, page |-> 0]

\* The answers of the upstream to the queries 1..3 and to the URLs 1..3.
SearchScripts ==
    { <<SearchOk(ThreeBody), SearchOk(DupsBody), SearchFailed("exception")>>,
      <<SearchFailed("timeout"), SearchOk(PairBody), SearchFailed("non200")>> }

FetchScripts ==
    { <<FetchOk(FewPage), FetchFailed("non200"), FetchFailed("timeout")>>,
      <<FetchFailed("bad_html"), FetchOk(BigPage(1)), FetchOk(FewPage)>> }

Upstreams ==
    [args : Inputs, search : SearchScripts, fetch : FetchScripts]

\* The client after __init__ with both credentials, two calls not started.
InitPair ==
    /\ google_api_key = TRUE
    /\ google_cse_id = TRUE
    /\ pc = "idle"
    /\ args = NoArgs
    /\ queries = <<>>
    /\ qi = 0
    /\ all_results = <<>>
    /\ urls = <<>>
    /\ ui = 0
    /\ scraped = <<>>
    /\ results = <<>>
    /\ returned = <<>>
    /\ calls = <<>>
    /\ last = NoLast
    /\ failed = [search |-> 0, fetch |-> 0]
    /\ data = <<>>
    /\ now = 0
    /\ twin = NoFrame
    /\ upstream \in Upstreams
    /\ extractions = <<>>
    /\ contexts = NoContexts
    /\ chat = NoChat

\* The event loop resumes the other call with all but its accumulator: the
\* lists all_results are one list that the two calls share.
SwitchSharedAccumulator ==
    /\ pc \in Suspended
    /\ twin.pc # "done"
    /\ twin' = Frame
    /\ pc' = twin.pc
    /\ args' = twin.args
    /\ queries' = twin.queries
    /\ qi' = twin.qi
    /\ urls' = twin.urls
    /\ ui' = twin.ui
    /\ scraped' = twin.scraped
    /\ results' = twin.results
    /\ returned' = twin.returned
    /\ UNCHANGED <<google_api_key, google_cse_id, all_results, calls, last, failed,
                   data, now, upstream, extractions, contexts, chat>>

\* The call that runs is suspended at an await (or has not started, or has
\* returned) and the event loop resumes the other call: the frames change
\* places, each with its own locals.  A call that has returned is never
\* resumed.
Switch ==
    /\ pc \in Suspended
    /\ twin.pc # "done"
    /\ twin' = Frame
    /\ pc' = twin.pc
    /\ args' = twin.args
    /\ queries' = twin.queries
    /\ qi' = twin.qi
    /\ all_results' = twin.all_results
    /\ urls' = twin.urls
    /\ ui' = twin.ui
    /\ scraped' = twin.scraped
    /\ results' = twin.results
    /\ returned' = twin.returned
    /\ UNCHANGED <<google_api_key, google_cse_id, calls, last, failed,
                   data, now, upstream, extractions, contexts, chat>>

\* Time passes: datetime.utcnow() reads a later time.
Tick ==
    /\ now < MaxClock
    /\ now' = now + 1
    /\ UNCHANGED <<google_api_key, google_cse_id, pc, args, queries, qi, all_results,
                   urls, ui, scraped, results, returned, calls, last, failed,
                   data, twin, upstream, extractions, contexts, chat>>

NextPair ==
    \/ Call(upstream.args)
    \/ IssueQuery
    \/ SearchResponse(upstream.search[qi])
    \/ SleepDone
    \/ SearchReturn
    \/ IssueFetch
    \/ FetchResponse(upstream.fetch[ui])
    \/ FetchReturn
    \/ Return
    \/ Switch
    \/ Tick

SpecPair == InitPair /\ [][NextPair]_vars

\* ---------------------------------------- the query builder on its own
\* _build_individual_listing_queries is a function of its three arguments:
\* the specification SpecQuery calls it once on arguments drawn from the
\* sets below, among them locations without a comma, with two commas, with
\* an empty state part, and the empty location.

QueryLocations ==
    { <<"B","a","s","t","r","o","p",","," ","T","X">>, <<"T","r","a","v","i","s"," ","C","o","u","n","t","y">>, <<>>, <<",">>, <<"A","u","s","t","i","n",",","T","X",",","U","S","A">>,
      <<"B","a","s","t","r","o","p",",">>, <<" ",","," ","T","X">>, <<" "," ","H","a","y","s"," "," ",","," "," ","T","X"," "," ">> }

QueryPropertyTypes == { <<"l","a","n","d">>, <<"h","o","u","s","e">>, <<>> }

QueryPrices == { <<>>, <<0>>, <<999>>, <<45000>>, <<1000000>> }

QueryInputs ==
    [location : QueryLocations, property_type : QueryPropertyTypes,
     max_price : QueryPrices]

\* The arguments are chosen; the builder has not run.
InitQuery ==
    /\ google_api_key \in BOOLEAN
    /\ google_cse_id = TRUE
    /\ pc = "build_call"
    /\ args \in QueryInputs
    /\ queries = <<>>
    /\ qi = 0
    /\ all_results = <<>>
    /\ urls = <<>>
    /\ ui = 0
    /\ scraped = <<>>
    /\ results = <<>>
    /\ returned = <<>>
    /\ calls = <<>>
    /\ last = NoLast
    /\ failed = [search |-> 0, fetch |-> 0]
    /\ data = <<>>
    /\ now = 0
    /\ twin = NoFrame
    /\ upstream = NoUpstream
    /\ extractions = <<>>
    /\ contexts = NoContexts
    /\ chat = NoChat

\* queries = self._build_individual_listing_queries(location, property_type,
\* max_price)
BuildQueries ==
    /\ pc = "build_call"
    /\ queries' = BuildIndividualListingQueries(args.location, args.property_type,
                                                args.max_price)
    /\ pc' = "build_return"
    /\ UNCHANGED <<google_api_key, google_cse_id, args, qi, all_results, urls, ui,
                   scraped, results, returned, calls, last, failed>>
    /\ UNCHANGED outside

SpecQuery == InitQuery /\ [][BuildQueries]_vars

\* ------------------------------------------------ one call and the clock
\* The specification SpecClock runs one call against an upstream of
\* SpecPair while time passes: `now` is the time since the call started.

\* Time passes while the call runs.
Elapse ==
    /\ pc \notin {"idle", "done", "raised"}
    /\ now < MaxClock
    /\ now' = now + 1
    /\ UNCHANGED <<google_api_key, google_cse_id, pc, args, queries, qi, all_results,
                   urls, ui, scraped, results, returned, calls, last, failed,
                   data, twin, upstream, extractions, contexts, chat>>

NextClock ==
    \/ Call(upstream.args)
    \/ IssueQuery
    \/ SearchResponse(upstream.search[qi])
    \/ SleepDone
    \/ SearchReturn
    \/ IssueFetch
    \/ FetchResponse(upstream.fetch[ui])
    \/ FetchReturn
    \/ Return
    \/ Elapse

SpecClock == InitPair /\ [][NextClock]_vars

\* ------------------------------------------------- the context manager
\* app/core/context.py, class ContextManager.  A dict is a function whose
\* domain is the set of its keys; a value of a profile is a number
\* [num |-> a float], a string [str |-> its characters] or None (<<>>).

\* d[k] = v
Put(d, k, v) == [x \in (DOMAIN d) \cup {k} |-> IF x = k THEN v ELSE d[x]]

\* d.get(k, default)
Get(d, k, default) == IF k \in DOMAIN d THEN d[k] ELSE default

\* {}
EmptyDict == <<>>

Zero == [n |-> 0, d |-> 0]

Num(n) == [num |-> [n |-> n, d |-> 0]]

Str(s) == [str |-> s]

\* float(clean) raises ValueError: clean is not a decimal numeral.
FloatOfRaises(clean) ==
    \/ \E i \in DOMAIN clean : clean[i] \notin DigitSet \cup {"."}
    \/ FloatRaises(clean)

\* _ensure_numeric(value)
EnsureNumeric(value) ==
    IF value = <<>> THEN Zero
    ELSE IF "num" \in DOMAIN value THEN value.num
    ELSE LET clean == Strip(RemoveChar(RemoveChar(value.str, "$"), ","))
         IN  IF clean = <<>> THEN Zero
             ELSE IF FloatOfRaises(clean) THEN Zero
             ELSE FloatOf(clean)

\* The profile with the two numeric fields normalised (lines 37-47).
NormalizedProfile(profile) ==
    [k \in DOMAIN profile |->
        IF k \in {"startingCapital", "profitGoal"}
        THEN [num |-> EnsureNumeric(profile[k])]
        ELSE profile[k]]

\* A set_user_context that builds the entry of the user anew every time.
SetUserContextAnew(ctxs, user_id, profile, t) ==
    Put(ctxs, user_id, [profile |-> NormalizedProfile(profile),
                        sessions |-> EmptyDict, created_at |-> t])

\* set_user_context(user_id, profile) when datetime.utcnow() reads t: the
\* contexts after the call.
SetUserContext(ctxs, user_id, profile, t) ==
    LET known == IF user_id \in DOMAIN ctxs THEN ctxs
                 ELSE Put(ctxs, user_id, [profile |-> EmptyDict, sessions |-> EmptyDict,
                                          created_at |-> t])
    IN  [known EXCEPT ![user_id].profile = NormalizedProfile(profile)]

\* get_user_context(user_id): None, or the context of the user.
GetUserContext(ctxs, user_id) ==
    IF user_id \in DOMAIN ctxs THEN <<ctxs[user_id]>> ELSE <<>>

\* The session create_session stores.
NewSession(agent_type, t) ==
    [agent_type |-> agent_type, messages |-> <<>>, extracted_data |-> EmptyDict,
     last_search_results |-> <<>>, created_at |-> t]

\* create_session(user_id, session_id, agent_type)
CreateSession(ctxs, user_id, session_id, agent_type, t) ==
    LET known == IF user_id \in DOMAIN ctxs THEN ctxs
                 ELSE SetUserContext(ctxs, user_id, EmptyDict, t)
    IN  [known EXCEPT ![user_id].sessions =
            Put(@, session_id, NewSession(agent_type, t))]

\* `user_id in self.contexts and session_id in self.contexts[user_id]["sessions"]`
HasSession(ctxs, user_id, session_id) ==
    /\ user_id \in DOMAIN ctxs
    /\ session_id \in DOMAIN ctxs[user_id].sessions

\* A store_search_results that makes the session when there is none.
StoreSearchResultsAnywhere(ctxs, user_id, session_id, search_results) ==
    LET made == IF HasSession(ctxs, user_id, session_id) THEN ctxs
                ELSE CreateSession(ctxs, user_id, session_id, "deal_hunter", 0)
    IN  [made EXCEPT ![user_id].sessions[session_id].last_search_results =
            <<search_results>>]

\* store_search_results(user_id, session_id, search_results)
StoreSearchResults(ctxs, user_id, session_id, search_results) ==
    IF HasSession(ctxs, user_id, session_id)
    THEN [ctxs EXCEPT ![user_id].sessions[session_id].last_search_results =
             <<search_results>>]
    ELSE ctxs

\* get_search_results(user_id, session_id): None, or the stored list.
GetSearchResults(ctxs, user_id, session_id) ==
    IF HasSession(ctxs, user_id, session_id)
    THEN ctxs[user_id].sessions[session_id].last_search_results
    ELSE <<>>

\* get_session_history(user_id, session_id)
GetSessionHistory(ctxs, user_id, session_id) ==
    IF HasSession(ctxs, user_id, session_id)
    THEN ctxs[user_id].sessions[session_id].messages
    ELSE <<>>

\* str.split(): the words of s, split at runs of whitespace.
RECURSIVE SplitWords(_)
SplitWords(s) ==
    LET t == LStrip(s)
        ws == {i \in DOMAIN t : t[i] \in SpaceSet}
        e == IF ws = {} THEN Len(t) + 1 ELSE CHOOSE i \in ws : \A j \in ws : i <= j
    IN  IF t = <<>> THEN <<>>
        ELSE <<SubSeq(t, 1, e - 1)>> \o SplitWords(SubSeq(t, e, Len(t)))

\* ' '.join(words)
RECURSIVE JoinWords(_)
JoinWords(words) ==
    IF words = <<>> THEN <<>>
    ELSE IF Len(words) = 1 THEN words[1]
    ELSE words[1] \o <<" ">> \o JoinWords(Tail(words))

\* The characters `.` matches: all but the newline.
DotSet == WordSet \cup {" ", "\t", "$", ",", ".", "#", "-", "?", "!", "'"}

\* (\d{1,3}(?:,?\d{3})*)
RGroupedDigits ==
    RSeq(RDigits1to3, RStar(RSeq(ROpt(RLit(<<",">>)), RRepeat(RDigit, 3))))

\* r'\$?(\d{1,3}(?:,?\d{3})*(?:\.\d{2})?)\s*(?:k|thousand)?': before the
\* group and the group; what follows the group matches the empty text.
capital_pattern ==
    <<ROpt(RLit(<<"$">>)),
      RSeq(RGroupedDigits, ROpt(RSeq(RLit(<<".">>), RRepeat(RDigit, 2))))>>

\* location_keywords, in the order of the list
location_keywords ==
    << <<"c","o","u","n","t","y">>, <<"c","i","t","y">>, <<"i","n"," ">>, <<"n","e","a","r">>, <<"a","r","o","u","n","d">>,
       <<"S","C">>, <<"T","X">>, <<"F","L">>, <<"C","A">>, <<"G","A">> >>

\* r'(\d+)\s*(month|year|week)' on the lowercased message (re.IGNORECASE)
timeline_pattern ==
    RSeqOf(<<RPlus(RDigit), RStar(RSpace),
             RAltOf(<<<<"m","o","n","t","h">>, <<"y","e","a","r">>, <<"w","e","e","k">>>>)>>)

\* The positions at which `.*?` started at position p of s can end, the
\* nearest first: p and every position after it up to the first character
\* that `.` does not match.
LazyDotEnds(s, p) ==
    LET stop == {i \in p..Len(s) : s[i] \notin DotSet}
        q == IF stop = {} THEN Len(s) + 1 ELSE CHOOSE i \in stop : \A j \in stop : i <= j
    IN  [i \in 1..(q - p + 1) |-> p + i - 1]

\* The span of the group of r'profit.*?\$?(\d{1,3}(?:,?\d{3})*)' matched at
\* position k of the lowercased message: None, or the span.
ProfitGroupAt(low, k) ==
    IF Ends(RLit(<<"p","r","o","f","i","t">>), low, k) = <<>> THEN <<>>
    ELSE GroupEndsFrom(RGroupedDigits, REps, low,
                       EndsFrom(ROpt(RLit(<<"$">>)), low, LazyDotEnds(low, k + 6)))

\* re.search of the profit pattern: None, or the span of the group.
ProfitSearch(low) ==
    IF \A k \in 1..(Len(low) + 1) : ProfitGroupAt(low, k) = <<>> THEN <<>>
    ELSE ProfitGroupAt(low, CHOOSE k \in 1..(Len(low) + 1) :
                                /\ ProfitGroupAt(low, k) # <<>>
                                /\ \A j \in 1..(k - 1) : ProfitGroupAt(low, j) = <<>>)

\* amount *= 1000
TimesThousand(x) == NormFloat([n |-> x.n * 1000, d |-> x.d])

\* The number of the first word that holds the keyword, lowercased: 0 if
\* there is none.
FirstWordWith(words, keyword) ==
    IF \E i \in DOMAIN words : Contains(Lower(words[i]), Lower(keyword))
    THEN CHOOSE i \in DOMAIN words :
            /\ Contains(Lower(words[i]), Lower(keyword))
            /\ \A j \in 1..(i - 1) : ~Contains(Lower(words[j]), Lower(keyword))
    ELSE 0

\* The loop over location_keywords from keyword k on: the location it
\* leaves, given the one it found so far (None at the start).
RECURSIVE ExtractLocation(_, _, _)
ExtractLocation(message, k, location) ==
    IF k > Len(location_keywords) THEN location
    ELSE LET words == SplitWords(message)
             i == FirstWordWith(words, location_keywords[k])
         IN  IF Contains(message, location_keywords[k]) /\ i > 0
             THEN ExtractLocation(message, k + 1,
                      <<JoinWords(SubSeq(words, IF i - 2 < 1 THEN 1 ELSE i - 2,
                                         IF i + 2 > Len(words) THEN Len(words)
                                         ELSE i + 2))>>)
             ELSE ExtractLocation(message, k + 1, location)

\* What _extract_and_store_data assigns on a message: the keys and values
\* it writes into `extracted`.
Extraction(message) ==
    LET low == Lower(message)
        capital_match == SearchGroup(capital_pattern[1], capital_pattern[2], REps, message)
        amount == FloatOf(RemoveChar(Group0(message, capital_match[1]), ","))
        location == ExtractLocation(message, 1, <<>>)
        timeline_match == Search(timeline_pattern, low)
        profit_match == ProfitSearch(low)
        e1 == IF capital_match # <<>>
              THEN Put(EmptyDict, "capital",
                       IF Contains(low, <<"k">>) \/ Contains(low, <<"t","h","o","u","s","a","n","d">>)
                       THEN TimesThousand(amount) ELSE amount)
              ELSE EmptyDict
        e2 == IF location # <<>> THEN Put(e1, "location", location[1]) ELSE e1
        e3 == IF timeline_match # <<>>
              THEN Put(e2, "timeline", Group0(message, timeline_match[1]))
              ELSE e2
    IN  IF profit_match # <<>>
        THEN Put(e3, "profit_goal",
                 FloatOf(RemoveChar(Group0(low, profit_match[1]), ",")))
        ELSE e3

\* search_triggers of _should_search
search_triggers ==
    << <<"f","i","n","d">>, <<"s","e","a","r","c","h">>, <<"s","h","o","w">>, <<"l","i","s","t">>, <<"a","v","a","i","l","a","b","l","e">>, <<"c","u","r","r","e","n","t">>,
       <<"w","h","a","t"," ","p","r","o","p","e","r","t","i","e","s">>, <<"w","h","a","t"," ","d","e","a","l","s">>, <<"w","h","a","t"," ","l","i","s","t","i","n","g","s">>, <<"r","e","a","l"," ","e","s","t","a","t","e"," ","i","n">>,
       <<"p","r","o","p","e","r","t","i","e","s"," ","i","n">>, <<"l","a","n","d"," ","i","n">>, <<"h","o","m","e","s"," ","i","n">> >>

\* _should_search(message)
ShouldSearch(message) ==
    \E k \in DOMAIN search_triggers : Contains(Lower(message), search_triggers[k])

\* The messages of the model. What _extract_and_store_data assigns on a
\* message depends on the message alone; it is computed once, when the
\* service starts, and read from `extractions` after that.
MessagePool ==
    << <<"f","i","n","d"," ","l","a","n","d"," ","i","n"," ","G","r","e","e","n","v","i","l","l","e"," ","c","o","u","n","t","y">>, <<"h","e","l","l","o">>, <<"s","h","o","w"," ","d","e","a","l","s">>,
       <<"l","i","s","t"," ","5","k"," ","l","o","t","s"," ","a","r","o","u","n","d"," ","A","i","k","e","n"," ","S","C">> >>

RECURSIVE ExtractionsUpTo(_)
ExtractionsUpTo(n) ==
    IF n = 0 THEN <<>>
    ELSE Append(ExtractionsUpTo(n - 1), Extraction(MessagePool[n]))

Extractions == ExtractionsUpTo(Len(MessagePool))

\* _extract_and_store_data: `extracted` after the message.
ExtractAndStoreData(extracted, message) ==
    LET assigned == extractions[CHOOSE n \in DOMAIN MessagePool : MessagePool[n] = message]
    IN  [k \in (DOMAIN extracted) \cup (DOMAIN assigned) |->
            IF k \in DOMAIN assigned THEN assigned[k] ELSE extracted[k]]

\* An add_message that stores the messages of the user only.
AddMessageOfUserOnly(ctxs, user_id, session_id, role, content, t) ==
    IF HasSession(ctxs, user_id, session_id) /\ role = "user"
    THEN [ctxs EXCEPT ![user_id].sessions[session_id] =
            [@ EXCEPT !.messages = Append(@, [role |-> role, content |-> content,
                                               timestamp |-> t]),
                      !.extracted_data = ExtractAndStoreData(@, content)]]
    ELSE ctxs

\* add_message(user_id, session_id, role, content)
AddMessage(ctxs, user_id, session_id, role, content, t) ==
    IF HasSession(ctxs, user_id, session_id)
    THEN [ctxs EXCEPT ![user_id].sessions[session_id] =
            [@ EXCEPT !.messages = Append(@, [role |-> role, content |-> content,
                                               timestamp |-> t]),
                      !.extracted_data = IF role = "user"
                                         THEN ExtractAndStoreData(@, content)
                                         ELSE @]]
    ELSE ctxs

\* ------------------------------------- the context manager on its own
\* The specification SpecStore calls the methods of ContextManager, in any
\* order and on any arguments of the sets below, on a store that is empty
\* or holds what earlier calls left in it.

\* The number of method calls of a behaviour of SpecStore.
MaxCalls == 2

UserIds == {"u1", "u2"}

SessionIds == {"s1", "s2"}

AgentTypes == {"deal-hunter"}

\* Profiles: none of the fields, all as onboarding sends them, the numeric
\* fields as text, and a property type that is None.
Profiles ==
    << EmptyDict,
       [targetGeography |-> Str(<<"A","u","s","t","i","n",","," ","T","X">>), startingCapital |-> Num(50000),
        propertyType |-> Str(<<"L","a","n","d">>)],
       [startingCapital |-> Str(<<"$","7","5",",","0","0","0">>), profitGoal |-> Str(<<"a","b","c">>)],
       [targetGeography |-> Str(<<"A","i","k","e","n"," ","S","C">>), propertyType |-> <<>>] >>

\* Lists of records as search_properties returns them.
ResultLists ==
    << <<>>,
       <<Candidate(<<"5","0","0"," ","O","a","k"," ","S","t">>, 120000, "Zillow", <<"h","t","t","p","s",":","/","/","w","w","w",".","z","i","l","l","o","w",".","c","o","m","/","a">>)>>,
       <<Candidate(<<"9"," ","E","l","m"," ","R","d",","," ","A","i","k","e","n">>, 50000, "Zillow", <<"h","t","t","p","s",":","/","/","w","w","w",".","z","i","l","l","o","w",".","c","o","m","/","d">>),
         Candidate(<<"1","2"," ","H","i","l","l"," ","C","t">>, 0, "Real Estate Listing", <<"h","t","t","p","s",":","/","/","w","w","w",".","l","a","n","d","w","a","t","c","h",".","c","o","m","/","b">>)>> >>

\* A store after onboarding of u1, a session of u1 with a message and
\* stored results, and a session of u2.
UsedStore ==
    LET c1 == SetUserContext(NoContexts, "u1", Profiles[2], 0)
        c2 == CreateSession(c1, "u1", "s1", "deal-hunter", 0)
        c3 == AddMessage(c2, "u1", "s1", "user", MessagePool[1], 0)
        c4 == StoreSearchResults(c3, "u1", "s1", ResultLists[2])
        c5 == CreateSession(c4, "u2", "s1", "deal-hunter", 0)
    IN  AddMessage(c5, "u2", "s1", "user", MessagePool[4], 0)

\* The manager after __init__, or after the calls above.
InitStore ==
    /\ google_api_key = TRUE
    /\ google_cse_id = TRUE
    /\ pc = "idle"
    /\ args = NoArgs
    /\ queries = <<>>
    /\ qi = 0
    /\ all_results = <<>>
    /\ urls = <<>>
    /\ ui = 0
    /\ scraped = <<>>
    /\ results = <<>>
    /\ returned = <<>>
    /\ calls = <<>>
    /\ last = NoLast
    /\ failed = [search |-> 0, fetch |-> 0]
    /\ data = <<>>
    /\ now = 0
    /\ twin = NoFrame
    /\ upstream = NoUpstream
    /\ extractions = Extractions
    /\ contexts \in {NoContexts, UsedStore}
    /\ chat = NoChat

\* What a method call of the manager leaves alone: the search client and
\* the table of the extractions.
client ==
    <<google_api_key, google_cse_id, pc, args, queries, qi, all_results, urls, ui,
      scraped, results, returned, calls, last, failed, data, twin, upstream,
      extractions>>

\* The call at hand, as the frame records it.
Served(method, user_id, session_id) ==
    [NoChat EXCEPT !.pc = method, !.user_id = user_id, !.session_id = session_id,
                   !.served = chat.served + 1]

CallSetUserContext(user_id, profile) ==
    /\ chat.served < MaxCalls
    /\ contexts' = SetUserContext(contexts, user_id, profile, now)
    /\ chat' = [Served("set_user_context", user_id, "") EXCEPT !.user_profile = profile]
    /\ UNCHANGED <<client, now>>

CallCreateSession(user_id, session_id, agent_type) ==
    /\ chat.served < MaxCalls
    /\ contexts' = CreateSession(contexts, user_id, session_id, agent_type, now)
    /\ chat' = Served("create_session", user_id, session_id)
    /\ UNCHANGED <<client, now>>

CallStoreSearchResults(user_id, session_id, search_results) ==
    /\ chat.served < MaxCalls
    /\ contexts' = StoreSearchResults(contexts, user_id, session_id, search_results)
    /\ chat' = Served("store_search_results", user_id, session_id)
    /\ UNCHANGED <<client, now>>

CallAddMessage(user_id, session_id, role, content) ==
    /\ chat.served < MaxCalls
    /\ contexts' = AddMessage(contexts, user_id, session_id, role, content, now)
    /\ chat' = Served("add_message", user_id, session_id)
    /\ UNCHANGED <<client, now>>

\* Time passes between two calls.
Later ==
    /\ now < MaxClock
    /\ now' = now + 1
    /\ UNCHANGED <<client, contexts, chat>>

NextStore ==
    \/ \E u \in UserIds, p \in Range(Profiles) : CallSetUserContext(u, p)
    \/ \E u \in UserIds, s \in SessionIds, a \in AgentTypes : CallCreateSession(u, s, a)
    \/ \E u \in UserIds, s \in SessionIds, rs \in Range(ResultLists) :
          CallStoreSearchResults(u, s, rs)
    \/ \E u \in UserIds, s \in SessionIds, role \in {"user", "assistant"},
          n \in {2, 4} : CallAddMessage(u, s, role, MessagePool[n])
    \/ Later

SpecStore == InitStore /\ [][NextStore]_vars

\* --------------------------------------------------- the chat service
\* The specification SpecChat serves /api/onboarding and /api/chat requests.
\* process_message is suspended only while it awaits search_properties;
\* an onboarding request may be served between two chat requests and while
\* a chat request awaits its search.

\* The number of requests of a behaviour of SpecChat.
MaxChats == 2

\* The intents IntentClassifier.classify returns (the keys of INTENTS).
Intents == {"deal_hunter", "underwriting_analyzer", "offer_outreach"}

\* ResponseFormatter.GREETINGS
GREETINGS ==
    << <<"U","n","d","e","r","s","t","o","o","d","!">>, <<"G","o","t"," ","i","t","!">>, <<"P","e","r","f","e","c","t","!">>, <<"A","c","k","n","o","w","l","e","d","g","e","d","!">>,
       <<"E","x","c","e","l","l","e","n","t","!">>, <<"C","o","n","f","i","r","m","e","d","!">>, <<"O","n"," ","i","t","!">>, <<"L","e","t","'","s"," ","d","i","v","e"," ","i","n","!">> >>

\* The greetings random.choice gives in the model.
GreetingPool == {GREETINGS[2], GREETINGS[5]}

\* The openings the reply of the model is cleared of (line 236).
Generics == << <<"U","n","d","e","r","s","t","o","o","d">>, <<"G","o","t"," ","i","t">>, <<"P","e","r","f","e","c","t">>, <<"A","c","k","n","o","w","l","e","d","g","e","d">> >>

\* The contents of the replies of the completion call.
Replies == { <<"H","e","r","e"," ","a","r","e"," ","2"," ","l","o","t","s",".">>, <<"G","o","t"," ","i","t",","," ","s","e","e"," ","t","h","e"," ","G","o","t"," ","i","t"," ","l","i","s","t",".">> }

\* str(e) of the exceptions of the completion call.
LlmErrors == { <<"C","o","n","n","e","c","t","i","o","n"," ","e","r","r","o","r",".">> }

ErrorPrefix == <<"I"," ","e","n","c","o","u","n","t","e","r","e","d"," ","a","n"," ","e","r","r","o","r",":"," ">>

\* The /api/chat requests: user, session, message, userProfile.
ChatRequests ==
    { [user_id |-> "u1", session_id |-> "s1", message |-> MessagePool[1],
       user_profile |-> Profiles[2]],
      [user_id |-> "u1", session_id |-> "s1", message |-> MessagePool[2],
       user_profile |-> EmptyDict],
      [user_id |-> "u1", session_id |-> "s1", message |-> MessagePool[3],
       user_profile |-> EmptyDict],
      [user_id |-> "u1", session_id |-> "s2", message |-> MessagePool[4],
       user_profile |-> Profiles[4]],
      [user_id |-> "u2", session_id |-> "s1", message |-> MessagePool[1],
       user_profile |-> EmptyDict] }

\* The profiles of the /api/onboarding requests.
OnboardingProfiles == {Profiles[2], Profiles[3]}

\* The lines 236-239: the first of the four openings the reply starts with
\* is replaced, once, by the greeting.
ReplaceGeneric(ai_response, greeting) ==
    LET hits == {k \in DOMAIN Generics : StartsWith(ai_response, Generics[k])}
    IN  IF hits = {} THEN ai_response
        ELSE LET first == CHOOSE k \in hits : \A j \in hits : k <= j
             IN  greeting \o SubSeq(ai_response, Len(Generics[first]) + 1,
                                    Len(ai_response))

\* `x or y` on an Optional text x and a profile value y: the text, or <<>>.
TextOr(x, y) ==
    IF x # <<>> THEN x
    ELSE IF y # <<>> /\ "str" \in DOMAIN y THEN y.str
    ELSE <<>>

\* The location of line 151.
SearchLocation(extracted, user_profile) ==
    TextOr(Get(extracted, "location", <<>>),
           IF user_profile # EmptyDict THEN Get(user_profile, "targetGeography", <<>>)
           ELSE <<>>)

\* Line 156 raises AttributeError: the propertyType of the profile is not
\* a string.
PropertyTypeRaises(user_profile) ==
    /\ user_profile # EmptyDict
    /\ "propertyType" \in DOMAIN user_profile
    /\ \/ user_profile["propertyType"] = <<>>
       \/ "str" \notin DOMAIN user_profile["propertyType"]

\* The service after start: no user is known, the search client was or was
\* not importable. The requests of a behaviour are served while the clock
\* reads the same.
InitChat ==
    /\ google_api_key = TRUE
    /\ google_cse_id = TRUE
    /\ pc = "idle"
    /\ args = NoArgs
    /\ queries = <<>>
    /\ qi = 0
    /\ all_results = <<>>
    /\ urls = <<>>
    /\ ui = 0
    /\ scraped = <<>>
    /\ results = <<>>
    /\ returned = <<>>
    /\ calls = <<>>
    /\ last = NoLast
    /\ failed = [search |-> 0, fetch |-> 0]
    /\ data = <<>>
    /\ now = 0
    /\ twin = NoFrame
    /\ upstream = NoUpstream
    /\ extractions = Extractions
    /\ contexts = NoContexts
    /\ \E available \in BOOLEAN : chat = [NoChat EXCEPT !.search_client = available]

\* /api/onboarding (main.py 146-166)
Onboarding(user_id, profile) ==
    /\ chat.pc \in {"idle", "done", "searching"}
    /\ chat.served < MaxChats
    /\ contexts' = SetUserContext(contexts, user_id, profile, now)
    /\ chat' = [chat EXCEPT !.served = @ + 1]
    /\ UNCHANGED <<client, now>>

\* /api/chat up to the call of process_message (main.py 178-204)
ChatReceive(request) ==
    /\ chat.pc \in {"idle", "done"}
    /\ chat.served < MaxChats
    /\ LET u == request.user_id
           s == request.session_id
           c1 == IF request.user_profile # EmptyDict
                 THEN SetUserContext(contexts, u, request.user_profile, now)
                 ELSE contexts
           c2 == IF GetUserContext(c1, u) = <<>>
                 THEN SetUserContext(c1, u, EmptyDict, now)
                 ELSE c1
           c3 == IF s \notin DOMAIN c2[u].sessions
                 THEN CreateSession(c2, u, s, "deal-hunter", now)
                 ELSE c2
       IN  /\ contexts' = c3
           /\ chat' = [NoChat EXCEPT !.pc = "received", !.user_id = u,
                          !.session_id = s, !.message = request.message,
                          !.user_profile = c3[u].profile,
                          !.base = Len(GetSessionHistory(c3, u, s)),
                          !.held = GetSearchResults(c3, u, s),
                          !.served = chat.served + 1,
                          !.search_client = chat.search_client]
    /\ UNCHANGED <<client, now>>

\* process_message, line 128
StoreUserMessage ==
    /\ chat.pc = "received"
    /\ contexts' = AddMessage(contexts, chat.user_id, chat.session_id, "user",
                              chat.message, now)
    /\ chat' = [chat EXCEPT !.pc = "stored"]
    /\ UNCHANGED <<client, now>>

\* process_message, lines 131-162: the intent, and whether search_properties
\* is called.
DecideSearch(intent) ==
    /\ chat.pc = "stored"
    /\ IF intent = "greeting"
       THEN /\ contexts' = AddMessage(contexts, chat.user_id, chat.session_id,
                                      "assistant", <<"H","e","l","l","o","!"," ","I","'","m"," ","D","e","a","l"," ","H","u","n","t","e","r">>, now)
            /\ chat' = [chat EXCEPT !.pc = "returned"]
       ELSE LET extracted ==
                    contexts[chat.user_id].sessions[chat.session_id].extracted_data
                called ==
                    /\ chat.search_client
                    /\ ShouldSearch(chat.message)
                    /\ SearchLocation(extracted, chat.user_profile) # <<>>
                    /\ ~PropertyTypeRaises(chat.user_profile)
            IN  /\ contexts' = contexts
                /\ chat' = IF called
                           THEN [chat EXCEPT !.pc = "searching", !.searches = @ + 1]
                           ELSE [chat EXCEPT !.pc = "answering"]
    /\ UNCHANGED <<client, now>>

\* search_properties raises (outcome <<>>) or returns a list (lines 158-177).
SearchEnds(outcome) ==
    /\ chat.pc = "searching"
    /\ IF outcome = <<>>
       THEN /\ contexts' = contexts
            /\ chat' = [chat EXCEPT !.pc = "answering", !.raised = TRUE]
       ELSE /\ contexts' = IF outcome[1] # <<>>
                           THEN StoreSearchResults(contexts, chat.user_id,
                                                   chat.session_id, outcome[1])
                           ELSE contexts
            /\ chat' = [chat EXCEPT !.pc = "answering", !.search_results = outcome]
    /\ UNCHANGED <<client, now>>

\* The completion call raises (outcome [error]) or replies (outcome
\* [content]); lines 213-250.
CallLlm(outcome, greeting) ==
    /\ chat.pc = "answering"
    /\ IF "error" \in DOMAIN outcome
       THEN /\ contexts' = contexts
            /\ chat' = [chat EXCEPT !.pc = "returned", !.completions = @ + 1,
                                    !.response = ErrorPrefix \o outcome.error]
       ELSE LET ai_response == ReplaceGeneric(outcome.content, greeting)
            IN  /\ contexts' = AddMessage(contexts, chat.user_id, chat.session_id,
                                          "assistant", ai_response, now)
                /\ chat' = [chat EXCEPT !.pc = "returned", !.completions = @ + 1,
                                        !.ok = TRUE, !.response = ai_response]
    /\ UNCHANGED <<client, now>>

\* /api/chat after process_message (main.py 213)
ChatRespond ==
    /\ chat.pc = "returned"
    /\ chat' = [chat EXCEPT !.pc = "done",
                   !.found = GetSearchResults(contexts, chat.user_id, chat.session_id)]
    /\ UNCHANGED <<client, now, contexts>>

NextChat ==
    \/ \E u \in UserIds, p \in OnboardingProfiles : Onboarding(u, p)
    \/ \E r \in ChatRequests : ChatReceive(r)
    \/ StoreUserMessage
    \/ \E intent \in Intents : DecideSearch(intent)
    \/ \E rs \in Range(ResultLists) : SearchEnds(<<rs>>)
    \/ SearchEnds(<<>>)
    \/ \E e \in LlmErrors, g \in GreetingPool : CallLlm([error |-> e], g)
    \/ \E r \in Replies, g \in GreetingPool : CallLlm([content |-> r], g)
    \/ ChatRespond

SpecChat == InitChat /\ [][NextChat]_vars

\* ------------------------------------------------------------ properties

\* The search requests and the page requests issued so far, in order.
SearchCalls == SelectSeq(calls, LAMBDA c : c.tier = "search")

FetchCalls == SelectSeq(calls, LAMBDA c : c.tier = "fetch")

Targets(cs) == [i \in DOMAIN cs |-> cs[i].target]

HasCredentials == google_api_key /\ google_cse_id

\* _search_individual_listings has run and returned to search_properties.
SearchTierReturned ==
    HasCredentials /\ pc \in {"fetch_loop", "fetch_wait", "dedup", "done"}

\* The page requests that have ended.
EndedFetches == Len(FetchCalls) - (IF pc = "fetch_wait" THEN 1 ELSE 0)

\* C1: search_properties never raises because of a network or parse
\* failure: whatever way each query and each page fetch ends (success,
\* non-200 status, timeout, exception, malformed or error body), no
\* exception leaves the call: the call is always at one of its own steps or
\* has returned, and what it returns is a list, possibly empty.
C1_NeverRaises ==
    /\ pc # "raised"
    /\ pc \in {"idle", "search_loop", "search_wait", "search_sleep",
               "fetch_loop", "fetch_wait", "dedup", "done"}
    /\ pc = "done" => DOMAIN returned = 1..Len(returned)

\* C1: a call in which every query and every page fetch failed has
\* returned the empty list.
C1_AllFailedReturnsEmpty ==
    /\ pc = "done"
    /\ failed.search = MaxQueries
    /\ failed.fetch = MaxUrls
    /\ returned = <<>>

\* C2: the page tier is invoked whenever the search tier yields fewer than
\* 5 records, never when it yields 5 or more, and starts only after every
\* query of the search tier has finished: every page request comes after
\* all the search requests, at a time when the query loop is over and
\* fewer than 5 records were found.
C2_FallbackGate ==
    /\ FetchCalls # <<>> =>
          /\ SearchTierReturned
          /\ Len(all_results) < 5
          /\ qi > Len(Take(queries, MaxQueries))
          /\ Targets(SearchCalls) = Take(queries, MaxQueries)
          /\ \A i, j \in DOMAIN calls :
                calls[i].tier = "search" /\ calls[j].tier = "fetch" => i < j
    /\ SearchTierReturned /\ Len(all_results) < 5 =>
          \/ pc = "fetch_loop" /\ urls # <<>>
          \/ FetchCalls # <<>>
    /\ SearchTierReturned /\ Len(all_results) >= 5 =>
          FetchCalls = <<>> /\ pc \in {"dedup", "done"}

\* C2: a call whose search tier found 3 records has fetched the pages.
C2_FallbackRan ==
    /\ pc = "done"
    /\ Len(all_results) = 3
    /\ Len(FetchCalls) = MaxUrls

\* The normalisation the specification names for addresses: lowercased,
\* trimmed, every run of whitespace collapsed to one space.
RECURSIVE CollapseSpaces(_)
CollapseSpaces(s) ==
    IF s = <<>> THEN <<>>
    ELSE IF Head(s) \in SpaceSet
         THEN IF Len(s) > 1 /\ s[2] \in SpaceSet THEN CollapseSpaces(Tail(s))
              ELSE <<" ">> \o CollapseSpaces(Tail(s))
         ELSE <<Head(s)>> \o CollapseSpaces(Tail(s))

CollapsedKey(r) == <<CollapseSpaces(Strip(Lower(r.address))), r.price>>

\* The records of rs are mutually distinct candidates.
MutuallyDistinct(rs) ==
    \A i, j \in DOMAIN rs : i # j => CollapsedKey(rs[i]) # CollapsedKey(rs[j])

\* C3 (Scenario D): when the search tier returned 3 valid, mutually
\* distinct records and every page fetch of the fallback tier fails,
\* search_properties does not raise and returns exactly those 3 records.
C3_ScenarioD ==
    (/\ HasCredentials
     /\ \/ pc \in {"fetch_loop", "fetch_wait", "dedup", "done"}
        \/ pc = "raised" /\ last.tier = "fetch"
     /\ Len(all_results) = 3
     /\ MutuallyDistinct(all_results)
     /\ failed.fetch = EndedFetches)
    => /\ pc # "raised"
       /\ pc = "done" => returned = all_results /\ Len(FetchCalls) = MaxUrls

\* C3: the scenario has happened: 3 distinct records from the search tier,
\* three failed page fetches, and the call has returned the 3 records.
C3_ScenarioDReturned ==
    /\ pc = "done"
    /\ Len(all_results) = 3
    /\ MutuallyDistinct(all_results)
    /\ failed.fetch = MaxUrls
    /\ Len(returned) = 3

\* C4: in the search tier a query whose call fails (exception, timeout,
\* non-200 status, malformed or error body) contributes zero records and
\* changes nothing else: the step in which it fails leaves the accumulated
\* records as they were and goes on to the next turn of the loop, and when
\* the tier returns every query of the batch has been sent.
C4_FailedQuerySkipped ==
    /\ [][(pc = "search_wait" /\ failed'.search = failed.search + 1)
            => /\ all_results' = all_results
               /\ results' = results
               /\ queries' = queries
               /\ pc' = "search_loop"
               /\ qi' = qi + 1]_vars
    /\ [](SearchTierReturned => Targets(SearchCalls) = Take(queries, MaxQueries))

\* C4: the second query has just failed after the first one had found
\* records, which are still there.
C4_FailedAfterSuccess ==
    /\ pc = "search_loop"
    /\ qi = 3
    /\ last.tier = "search"
    /\ last.kind \in {"exception", "timeout", "non200", "error_body"}
    /\ all_results # <<>>

\* C5: in the page tier a fetch failure for one URL (non-200, timeout,
\* exception, unparsable page) yields no records for that URL only: the
\* step in which it fails keeps the listings scraped from earlier URLs and
\* goes on to the next URL, and when the tier returns every URL of the
\* batch has been requested.
C5_FailedFetchSkipped ==
    /\ [][(pc = "fetch_wait" /\ failed'.fetch = failed.fetch + 1)
            => /\ scraped' = scraped
               /\ results' = results
               /\ urls' = urls
               /\ pc' = "fetch_loop"
               /\ ui' = ui + 1]_vars
    /\ []((HasCredentials /\ urls # <<>> /\ pc \in {"dedup", "done"})
            => Targets(FetchCalls) = Take(urls, MaxUrls))

\* C5: the second fetch has just failed after the first one had scraped
\* listings, which are still there.
C5_FailedAfterScrape ==
    /\ pc = "fetch_loop"
    /\ ui = 3
    /\ last.tier = "fetch"
    /\ last.kind \in {"timeout", "non200", "bad_html"}
    /\ scraped # <<>>

\* C6 as claimed (early termination): once the candidates accumulated over
\* the queries already executed number 15 or more, no further search call
\* is issued in the invocation.
C6_StopsAtFifteen ==
    [][Len(all_results) >= 15 => ~(pc = "search_loop" /\ pc' = "search_wait")]_vars

\* C6, amended: there is no early termination.  While a query of the first
\* three is left, the only step of the loop is to send it, whatever the
\* number of candidates accumulated, 15 or more included.
C6_NoEarlyTermination ==
    [][(pc = "search_loop" /\ qi <= Len(Take(queries, MaxQueries)))
         => /\ pc' = "search_wait"
            /\ calls' = Append(calls, [tier |-> "search", target |-> queries[qi]])
            /\ all_results' = all_results]_vars

\* C6: the third query is on its way although 15 or more candidates were
\* accumulated before it was sent.
C6_SentBeyondFifteen ==
    /\ pc = "search_wait"
    /\ qi = 3
    /\ Len(all_results) >= 15

\* The key the code deduplicates on: (lowercased, trimmed address, price).
TrimmedKey(r) == <<Strip(Lower(r.address)), r.price>>

\* The number of the first candidate of `results` whose key is k.
FirstCollapsed(k) ==
    CHOOSE i \in DOMAIN results :
        /\ CollapsedKey(results[i]) = k
        /\ \A j \in 1..(i - 1) : CollapsedKey(results[j]) # k

\* The keys of the first n records of rs, in order.
RECURSIVE TrimmedKeysUpTo(_, _)
TrimmedKeysUpTo(rs, n) ==
    IF n = 0 THEN <<>> ELSE Append(TrimmedKeysUpTo(rs, n - 1), TrimmedKey(rs[n]))

TrimmedKeys(rs) == TrimmedKeysUpTo(rs, Len(rs))

\* The number of the first of the keys `keys` equal to k.
FirstOf(keys, k) ==
    CHOOSE i \in DOMAIN keys : keys[i] = k /\ \A j \in 1..(i - 1) : keys[j] # k

\* C7 as claimed (dedup correctness): of the candidates of one invocation
\* whose addresses are equal after lowercasing and whitespace-collapsing
\* and whose prices are equal, the output contains exactly one, the first
\* to occur.
C7_OnePerCollapsedKey ==
    pc = "done" =>
        \A i \in DOMAIN results :
            /\ Cardinality({j \in DOMAIN returned :
                              CollapsedKey(returned[j]) = CollapsedKey(results[i])}) = 1
            /\ \E j \in DOMAIN returned :
                  returned[j] = results[FirstCollapsed(CollapsedKey(results[i]))]

\* C7, amended: of the candidates of one invocation whose addresses are
\* equal after lowercasing and trimming (inner whitespace is not collapsed)
\* and whose prices are equal, the output contains at most one, the first
\* to occur; it contains exactly one unless the cut to 20 records removed it.
C7_OnePerTrimmedKey ==
    pc = "done" =>
        \E keys \in {TrimmedKeys(results)}, out \in {TrimmedKeys(returned)} :
            /\ \A i \in DOMAIN keys :
                  Cardinality({j \in DOMAIN out : out[j] = keys[i]}) <= 1
            /\ \A j \in DOMAIN out :
                  /\ \E i \in DOMAIN keys : keys[i] = out[j]
                  /\ returned[j] = results[FirstOf(keys, out[j])]
            /\ Len(returned) < 20 =>
                  \A i \in DOMAIN keys : \E j \in DOMAIN out : out[j] = keys[i]

\* C7: two candidates with the same address and price arrived and the
\* output holds one record for them.
C7_DuplicateSuppressed ==
    /\ pc = "done"
    /\ \E keys \in {TrimmedKeys(results)}, out \in {TrimmedKeys(returned)} :
          \E i, k \in DOMAIN keys :
              /\ i < k
              /\ keys[i] = keys[k]
              /\ Cardinality({j \in DOMAIN out : out[j] = keys[i]}) = 1

ConfidenceScore(r) ==
    (IF r.address = <<>> THEN 0 ELSE IF Len(r.address) > 15 THEN 40 ELSE 20)
    + (IF r.price > 0 THEN 40 ELSE 0)
    + (IF r.acres # <<>> THEN 20 ELSE 0)

ConfidenceGrade(r) ==
    IF ConfidenceScore(r) >= 80 THEN 3 ELSE IF ConfidenceScore(r) >= 50 THEN 2 ELSE 1

\* The number of the first record of `results` equal to r.
FirstArrival(r) ==
    CHOOSE i \in DOMAIN results :
        results[i] = r /\ \A j \in 1..(i - 1) : results[j] # r

\* C9 as claimed: the returned list is ordered by confidence, High before
\* Medium before Low (and then by completeness), not by arrival.
C9_OrderedByConfidence ==
    pc = "done" =>
        \A j, k \in DOMAIN returned :
            j < k => ConfidenceGrade(returned[j]) >= ConfidenceGrade(returned[k])

\* C9, amended: the returned list is in arrival order (the search-tier
\* records in query order, then the page-tier records in URL order); it is
\* not sorted by confidence or completeness.
C9_ArrivalOrder ==
    pc = "done" =>
        /\ results = all_results \o scraped
        /\ \A j \in DOMAIN returned : \E i \in DOMAIN results : results[i] = returned[j]
        /\ \A j, k \in DOMAIN returned :
              j < k => FirstArrival(returned[j]) < FirstArrival(returned[k])

\* C9: a returned list in which a record of lower confidence stands
\* before one of higher confidence, as they arrived.
C9_LowerGradeFirst ==
    /\ pc = "done"
    /\ \E j, k \in DOMAIN returned :
          j < k /\ ConfidenceGrade(returned[j]) < ConfidenceGrade(returned[k])

\* The numbers of the keys `keys` that are the first of their value: the
\* candidates that survive deduplication.
Survivors(keys) ==
    {i \in DOMAIN keys : \A j \in 1..(i - 1) : keys[j] # keys[i]}

\* The n-th number of the set S, in increasing order.
Nth(S, n) == CHOOSE i \in S : Cardinality({x \in S : x < i}) = n - 1

\* C10: search_properties returns at most 20 records, whatever the number
\* of candidates of the two tiers; when more than 20 survive deduplication
\* the result is the first 20 of them in output order, and no survivor is
\* cut when there are 20 or fewer.
C10_AtMostTwenty ==
    pc = "done" =>
        \E alive \in {Survivors(TrimmedKeys(results))} :
            /\ Len(returned) <= 20
            /\ Len(returned) = (IF Cardinality(alive) > 20 THEN 20
                                ELSE Cardinality(alive))
            /\ \A n \in DOMAIN returned : returned[n] = results[Nth(alive, n)]

\* C10: more than 20 candidates survived deduplication and 20 were returned.
C10_CutToTwenty ==
    /\ pc = "done"
    /\ Cardinality(Survivors(TrimmedKeys(results))) > 20
    /\ Len(returned) = 20

\* What the extractors find in the candidate SpecParse parses.
CandidateText == data[1].title \o <<" ">> \o data[1].snippet

CandidateAddress == ExtractAddress(data[1].title, data[1].snippet)

CandidatePrice == ExtractPrice(CandidateText)

CandidateAcres == ExtractAcres(CandidateText)

\* C11 as claimed: a candidate for which no address is found and that does
\* not have both a price > 0 and an acreage never becomes a record, and no
\* record lacks both an address and (price > 0 and acres).
C11_NeedsAddressOrPriceAndAcres ==
    pc = "parse_return" =>
        /\ (~Truthy(CandidateAddress) /\ ~(CandidatePrice > 0 /\ CandidateAcres # <<>>))
              => results = <<>>
        /\ \A i \in DOMAIN results :
              \/ results[i].address # <<>>
              \/ results[i].price > 0 /\ results[i].acres # <<>>

\* C11, amended: a candidate for which no address is found and whose price
\* is 0 never becomes a record; one with a price > 0 may become a record,
\* acreage or not, and its address is then the first TitleCut characters of
\* its title; no record lacks an address.
C11_NeedsAddressOrPrice ==
    pc = "parse_return" =>
        /\ (~Truthy(CandidateAddress) /\ CandidatePrice = 0) => results = <<>>
        /\ (~Truthy(CandidateAddress) /\ results # <<>>)
              => /\ CandidatePrice > 0
                 /\ results[1].address = Take(data[1].title, TitleCut)
        /\ \A i \in DOMAIN results : results[i].address # <<>>

\* C11: a candidate without address and without acreage, with a price, has
\* become a record.
C11_RecordWithoutAcres ==
    /\ pc = "parse_return"
    /\ ~Truthy(CandidateAddress)
    /\ CandidatePrice > 0
    /\ CandidateAcres = <<>>
    /\ results # <<>>

\* The address a record of the candidate would carry: the one found, else
\* the cut title when there is a price.
CandidateFinalAddress ==
    IF Truthy(CandidateAddress) THEN CandidateAddress[1]
    ELSE IF CandidatePrice > 0 THEN Take(data[1].title, TitleCut)
    ELSE <<>>

C13_ConstructionRaises ==
    ~HasCredentials => pc = "raised"

\* C13, amended: missing credentials are not an error.  Construction
\* succeeds whatever the environment holds, and a call on a client without
\* an API key or without a search-scope id sends no request, raises nothing
\* and returns the empty list; no step of the engine is fatal.
C13_NoConfigurationError ==
    /\ pc # "raised"
    /\ ~HasCredentials =>
          /\ pc \in {"idle", "dedup", "done"}
          /\ calls = <<>>
          /\ results = <<>>
          /\ pc = "done" => returned = <<>>

\* C13: a client constructed without credentials was called and returned.
C13_CalledWithoutCredentials ==
    /\ ~HasCredentials
    /\ pc = "done"
    /\ args \in Inputs

\* The name of a confidence grade.
GradeName(g) == IF g = 3 THEN "High" ELSE IF g = 2 THEN "Medium" ELSE "Low"

\* C14 as claimed: every record returned by search_properties carries a
\* confidence grade computed additively from its fields.
C14_RecordsCarryConfidence ==
    \A i \in DOMAIN returned :
        /\ "confidence" \in DOMAIN returned[i]
        /\ returned[i].confidence = GradeName(ConfidenceGrade(returned[i]))

\* C14, amended: no record carries a confidence grade, in the accumulators
\* of the two tiers or in the list returned; a record is a dict of the
\* extracted fields only.  Nothing is graded, so no grade drops a record.
C14_NoConfidenceGrade ==
    \A rs \in {all_results, scraped, results, returned} :
        \A i \in DOMAIN rs :
            /\ "confidence" \notin DOMAIN rs[i]
            /\ "address" \in DOMAIN rs[i]
            /\ "price" \in DOMAIN rs[i]

\* C14: a record that the additive scoring would grade Low was returned.
C14_LowGradeReturned ==
    /\ pc = "done"
    /\ \E i \in DOMAIN returned : ConfidenceGrade(returned[i]) = 1

\* C15 (range rejection): in every record the price is 0 or an integer
\* between 1,000 and 50,000,000, and the acreage is absent or between 0.1
\* and 10,000; the listings "22 Elm Ave" and "12 Hill Ct, Bastrop", whose
\* texts hold a pattern-matched price of 500 and an acreage of 15,000, are
\* returned with price 0 and no acreage.
C15_RangeRejection ==
    \A rs \in {all_results, scraped, results, returned} :
        \A i \in DOMAIN rs :
            /\ \/ rs[i].price = 0
               \/ rs[i].price >= 1000 /\ rs[i].price <= 50000000
            /\ \/ rs[i].acres = <<>>
               \/ /\ 10 * rs[i].acres[1].n >= Pow10(rs[i].acres[1].d)
                  /\ rs[i].acres[1].n <= 10000 * Pow10(rs[i].acres[1].d)
            /\ rs[i].address \in {<<"2","2"," ","E","l","m"," ","A","v","e">>,
                                  <<"1","2"," ","H","i","l","l"," ","C","t",","," ","B","a","s","t","r","o","p">>}
                  => rs[i].price = 0 /\ rs[i].acres = <<>>

\* C15: a listing with a price of 500 and an acreage of 15,000 was
\* returned next to one with a price and an acreage in range.
C15_OutOfRangeDiscarded ==
    /\ pc = "done"
    /\ \E i, j \in DOMAIN returned :
          /\ returned[i].address = <<"2","2"," ","E","l","m"," ","A","v","e">>
          /\ returned[i].price = 0
          /\ returned[j].price >= 1000
          /\ returned[j].acres # <<>>

\* The property-domain keywords the specification names for its gate.
Keywords ==
    { <<"p","r","o","p","e","r","t","y">>, <<"l","a","n","d">>, <<"h","o","m","e">>, <<"a","c","r","e">>, <<"l","o","t">>, <<"l","i","s","t","i","n","g">>,
      <<"f","o","r"," ","s","a","l","e">>, <<"r","e","a","l"," ","e","s","t","a","t","e">>, <<"r","e","s","i","d","e","n","t","i","a","l">>, <<"c","o","m","m","e","r","c","i","a","l">>, <<"a","d","d","r","e","s","s">> }

HasKeyword(text) == \E w \in Keywords : Contains(Lower(text), w)

\* C16 as claimed (keyword gate): a search result whose title and snippet
\* contain none of the property-domain keywords never yields a record.
C16_KeywordGate ==
    pc = "parse_return" => (~HasKeyword(CandidateText) => results = <<>>)

\* C16, amended: the gate is on address patterns, not on keywords.  A
\* search result whose title and snippet, joined by a space, hold no street
\* address (number, capitalised word, street suffix), no "LOT n" and no
\* "#n" never yields a record, whatever keywords it contains.
C16_AddressPatternGate ==
    pc = "parse_return" =>
        (~ContainsAddressPattern(CandidateText) => results = <<>>)

\* C16: a result without any keyword has yielded a record.
C16_RecordWithoutKeyword ==
    /\ pc = "parse_return"
    /\ ~HasKeyword(CandidateText)
    /\ ContainsAddressPattern(CandidateText)
    /\ results # <<>>

\* Whether a lowercased address starts like a category page.
CategoryPhrased(low) ==
    \/ \E w \in { <<"p","r","o","p","e","r","t","y"," ","i","n">>, <<"l","a","n","d"," ","i","n">>, <<"h","o","m","e"," ","i","n">>, <<"h","o","m","e","s"," ","i","n">>,
                   <<"s","e","a","r","c","h">>, <<"u","n","d","e","r"," ","$">> } : StartsWith(low, w)
    \/ \E n \in DOMAIN low :
          /\ \A j \in 1..n : low[j] \in DigitSet
          /\ StartsWith(LStrip(SubSeq(low, n + 1, Len(low))), <<"l","i","s","t","i","n","g">>)

\* C17 (reject-pattern gate): no record returned by search_properties,
\* from either tier and from any site parser, has an address that matches
\* a category-page phrasing ("property in", "land in", "home(s) in",
\* "N listings", "search", "under $", at the start of the lowercased
\* address); every returned address contains a digit and has at least 10
\* characters.
C17_RejectPatternGate ==
    \A i \in DOMAIN returned :
        /\ ~CategoryPhrased(Lower(returned[i].address))
        /\ \E j \in DOMAIN returned[i].address : returned[i].address[j] \in DigitSet
        /\ Len(returned[i].address) >= 10

\* C17: the page whose cards hold the category label "Land in Travis
\* County 78602" was scraped, and the call returned its listing "12 Hill
\* Ct, Bastrop" next to records of the search tier.
C17_CategoryLabelRejected ==
    /\ pc = "done"
    /\ all_results # <<>>
    /\ \E i \in DOMAIN returned :
          returned[i].address = <<"1","2"," ","H","i","l","l"," ","C","t",","," ","B","a","s","t","r","o","p">>

\* The snippet of Scenario A.
ScenarioASnippet == <<"1","2","3","4"," ","C","o","u","n","t","y"," ","R","o","a","d"," ","3","4","5",","," ","B","a","s","t","r","o","p",","," ","T","X"," ",EmDash," ","$","4","5",",","0","0","0",","," ","2",".","5"," ","a","c","r","e","s">>

\* C18 (Scenario A): a search result whose snippet is "1234 County Road
\* 345, Bastrop, TX - $45,000, 2.5 acres" (with an em dash) yields one
\* record with address "1234 County Road 345", price 45000 and acres 2.5.
C18_ScenarioA ==
    (pc = "parse_return" /\ data[1].snippet = ScenarioASnippet)
    => /\ Len(results) = 1
       /\ results[1].address = <<"1","2","3","4"," ","C","o","u","n","t","y"," ","R","o","a","d"," ","3","4","5">>
       /\ results[1].price = 45000
       /\ results[1].acres = <<[n |-> 25, d |-> 1]>>

\* The price the pattern number k of _extract_price matches in text, and
\* the acreage text the pattern number k of _extract_acres matches in the
\* lowercased text: None when the pattern does not match.
PriceMatch(text, k) ==
    The({ IF m = <<>> THEN <<>> ELSE <<IntOf(RemoveChar(Group0(text, m[1]), ","))>> :
          m \in {SearchGroup(price_patterns[k][1], price_patterns[k][2], REps, text)} })

AcresMatch(text, k) ==
    MatchOf(Lower(text), SearchGroup(REps, acres_patterns[k][1], acres_patterns[k][2],
                                     Lower(text)))

PriceInRange(v) == v >= 1000 /\ v <= 50000000

AcresInRange(g) ==
    /\ ~FloatRaises(g)
    /\ 10 * FloatOf(g).n >= Pow10(FloatOf(g).d)
    /\ FloatOf(g).n <= 10000 * Pow10(FloatOf(g).d)

\* C20 as claimed (first match wins): the first pattern of the ordered
\* list that matches the text decides the field; if the value it matched is
\* out of range the field is discarded (price 0, acres absent), whatever a
\* later pattern finds.
C20_FirstMatchWins ==
    pc = "parse_return" =>
        \A i \in DOMAIN results :
            /\ \A k \in DOMAIN price_patterns :
                  (/\ PriceMatch(CandidateText, k) # <<>>
                   /\ \A j \in 1..(k - 1) : PriceMatch(CandidateText, j) = <<>>)
                  => results[i].price =
                        IF PriceInRange(PriceMatch(CandidateText, k)[1])
                        THEN PriceMatch(CandidateText, k)[1] ELSE 0
            /\ \A k \in DOMAIN acres_patterns :
                  (/\ AcresMatch(CandidateText, k) # <<>>
                   /\ \A j \in 1..(k - 1) : AcresMatch(CandidateText, j) = <<>>)
                  => results[i].acres =
                        IF AcresInRange(AcresMatch(CandidateText, k)[1])
                        THEN <<FloatOf(AcresMatch(CandidateText, k)[1])>> ELSE <<>>

\* C20, amended: the first pattern of the ordered list whose match is in
\* the accepted range decides the field.  A pattern that matches a value
\* out of range is passed over like one that does not match, and the value
\* a later pattern finds is returned; the field is discarded (price 0,
\* acres absent) only when no pattern matches a value in range.
C20_FirstInRangeWins ==
    pc = "parse_return" =>
        \A i \in DOMAIN results :
            /\ \A k \in DOMAIN price_patterns :
                  (/\ PriceMatch(CandidateText, k) # <<>>
                   /\ PriceInRange(PriceMatch(CandidateText, k)[1])
                   /\ \A j \in 1..(k - 1) :
                         \/ PriceMatch(CandidateText, j) = <<>>
                         \/ ~PriceInRange(PriceMatch(CandidateText, j)[1]))
                  => results[i].price = PriceMatch(CandidateText, k)[1]
            /\ (\A k \in DOMAIN price_patterns :
                   \/ PriceMatch(CandidateText, k) = <<>>
                   \/ ~PriceInRange(PriceMatch(CandidateText, k)[1]))
                  => results[i].price = 0
            /\ \A k \in DOMAIN acres_patterns :
                  (/\ AcresMatch(CandidateText, k) # <<>>
                   /\ AcresInRange(AcresMatch(CandidateText, k)[1])
                   /\ \A j \in 1..(k - 1) :
                         \/ AcresMatch(CandidateText, j) = <<>>
                         \/ ~AcresInRange(AcresMatch(CandidateText, j)[1]))
                  => results[i].acres = <<FloatOf(AcresMatch(CandidateText, k)[1])>>
            /\ (\A k \in DOMAIN acres_patterns :
                   \/ AcresMatch(CandidateText, k) = <<>>
                   \/ ~AcresInRange(AcresMatch(CandidateText, k)[1]))
                  => results[i].acres = <<>>

\* C20: the first price pattern and the first acreage pattern matched
\* values out of range, and the record carries the values of the second
\* patterns.
C20_LaterPatternReturned ==
    /\ pc = "parse_return"
    /\ results # <<>>
    /\ PriceMatch(CandidateText, 1) # <<>>
    /\ ~PriceInRange(PriceMatch(CandidateText, 1)[1])
    /\ PriceMatch(CandidateText, 2) # <<>>
    /\ results[1].price = PriceMatch(CandidateText, 2)[1]
    /\ AcresMatch(CandidateText, 1) # <<>>
    /\ ~AcresInRange(AcresMatch(CandidateText, 1)[1])
    /\ AcresMatch(CandidateText, 2) # <<>>
    /\ results[1].acres = <<FloatOf(AcresMatch(CandidateText, 2)[1])>>


\* The records without the time at which each was parsed.
Undated(records) ==
    [i \in DOMAIN records |-> [records[i] EXCEPT !.search_date = <<>>]]

BothReturned == pc = "done" /\ twin.pc = "done"

\* C19 (as stated): two calls with the same arguments and the same upstream
\* responses, one after the other or interleaved at their awaits, return
\* the same records in the same order.
C19_SameRecords ==
    BothReturned => returned = twin.returned

\* C19 (amended): no step of a call changes a credential of the client; a
\* step of one call changes nothing of the other call, whose frame moves
\* only when the event loop switches; and the two calls return the same
\* records in the same order up to search_date, the clock reading each
\* record is stamped with.
C19_SameRecordsButSearchDate ==
    /\ [](BothReturned => Undated(returned) = Undated(twin.returned))
    /\ [][/\ google_api_key' = google_api_key
          /\ google_cse_id' = google_cse_id]_vars
    /\ [][twin' = twin \/ (twin' = Frame /\ Frame' = twin)]_vars

\* C19: both calls have returned after running interleaved (each sent its
\* first query before either sent a second one), and their non-empty lists
\* differ, in search_date only.
C19_InterleavedCallsDifferInDate ==
    /\ BothReturned
    /\ Len(calls) >= 2
    /\ calls[1] = calls[2]
    /\ returned # <<>>
    /\ returned # twin.returned
    /\ Undated(returned) = Undated(twin.returned)

\* The answer a step has just recorded is a parsed one: status 200, a body
\* without 'error', no exception.
ParsedAnswer == last.tier = "search" /\ last.kind = "ok" /\ last.raised = <<>>

\* C21 (as stated): search calls go out one at a time in the order of the
\* query builder, and after every answer, whatever its outcome, the delay
\* elapses before the next call.
C21_DelayAfterEveryOutcome ==
    /\ [][calls' # calls => pc \notin {"search_wait", "fetch_wait"}]_vars
    /\ [](Targets(SearchCalls) = Take(queries, Len(SearchCalls)))
    /\ [][(pc = "search_wait" /\ pc' = "search_loop")
            => ~HasNextQuery(queries', qi')]_vars

\* C21 (amended): search calls go out one at a time in the order of the
\* query builder; the delay elapses before the next call after a parsed
\* answer and only then: after a status that is not 200, an error body or
\* an exception the next call goes out at once.
C21_DelayAfterParsedAnswerOnly ==
    /\ [][calls' # calls => pc \notin {"search_wait", "fetch_wait"}]_vars
    /\ [](Targets(SearchCalls) = Take(queries, Len(SearchCalls)))
    /\ [][pc = "search_wait"
            => /\ ParsedAnswer' => pc' = "search_sleep"
               /\ ~ParsedAnswer' => pc' \in {"search_loop", "raised"}]_vars
    /\ [][pc = "search_sleep" => pc' = "search_loop" /\ calls' = calls]_vars

\* C21: the third query is in flight after one parsed answer, followed by
\* the delay, and one failed answer, followed by none.
C21_ThirdCallAfterOneFailure ==
    /\ pc = "search_wait"
    /\ Len(SearchCalls) = 3
    /\ failed.search = 1

NoRepeat(seq) == \A i, j \in DOMAIN seq : seq[i] = seq[j] => i = j

\* C22: within one invocation no query string is sent twice and no URL is
\* fetched twice, whatever failed; every answer, failed or not, moves the
\* loop on by one: the turn at hand is the number of requests sent plus one
\* (or that number, while the last request is in flight or its sleep runs).
C22_NoRetryInPlace ==
    /\ NoRepeat(Targets(SearchCalls))
    /\ NoRepeat(Targets(FetchCalls))
    /\ pc = "search_loop" => qi = Len(SearchCalls) + 1
    /\ pc \in {"search_wait", "search_sleep"} => qi = Len(SearchCalls)
    /\ pc = "fetch_loop" => ui = Len(FetchCalls) + 1
    /\ pc = "fetch_wait" => ui = Len(FetchCalls)

\* C22: the invocation has returned after three queries and three URLs,
\* with a failed answer in each tier.
C22_ReturnedAfterFailures ==
    /\ pc = "done"
    /\ Len(SearchCalls) = MaxQueries
    /\ Len(FetchCalls) = MaxUrls
    /\ failed.search >= 1
    /\ failed.fetch >= 1
    /\ last.kind = "timeout"

\* The part of the location after its first comma, trimmed, if any.
StatePart(location) ==
    IF \E i \in DOMAIN location : location[i] = ","
    THEN Strip(Split(location, ",")[2])
    ELSE <<>>

\* C23: on every location, property type and price limit the builder
\* returns, without error, between 3 and 5 queries, each a string, in the
\* order of its templates: the address query first, the listing query
\* fourth, and the site query, fifth, exactly when the location has a state
\* part; the sequence is the one the three arguments determine, whatever
\* the fields of the client.
C23_ThreeToFiveQueries ==
    pc = "build_return"
        => /\ Len(queries) \in 3..5
           /\ \A i \in DOMAIN queries : queries[i] # <<>>
           /\ Contains(queries[1], <<"a","d","d","r","e","s","s">>)
           /\ Contains(queries[4], <<"l","i","s","t","i","n","g"," ","a","d","d","r","e","s","s"," ","p","r","i","c","e">>)
           /\ Len(queries) = 5 <=> StatePart(args.location) # <<>>
           /\ queries = BuildIndividualListingQueries(args.location, args.property_type,
                                                      args.max_price)

\* C23: the builder has returned on a location without a state part and
\* without a price limit, the shortest case.
C23_BuiltWithoutStateAndPrice ==
    /\ pc = "build_return"
    /\ StatePart(args.location) = <<>>
    /\ args.location # <<>>
    /\ ~TruthyInt(args.max_price)
    /\ Len(queries) = 4

\* The records of the answers number 1..n of the upstream to the queries,
\* in the order of the queries.
RECURSIVE UpstreamSearchRecords(_)
UpstreamSearchRecords(n) ==
    IF n = 0 THEN <<>>
    ELSE UpstreamSearchRecords(n - 1) \o SearchRecords(upstream.search[n])

\* The listings of the answers number 1..n of the upstream to the URLs.
RECURSIVE UpstreamListings(_)
UpstreamListings(n) ==
    IF n = 0 THEN <<>>
    ELSE UpstreamListings(n - 1) \o ScrapeListingPage(upstream.fetch[n], urls[n])

\* C24 (as stated): once the time since the start of the call has reached
\* the deadline (here the last reading of the clock, the latest deadline
\* that can be observed) no call is started and no answer is added to the
\* results.
C24_BatchDeadline ==
    [][now = MaxClock
         => /\ calls' = calls
            /\ all_results' = all_results
            /\ scraped' = scraped]_vars

\* C24 (amended): there is no batch deadline.  However much time has
\* passed, the call sends every one of its three queries, fetches every
\* one of its three URLs when the search tier gave fewer than five records,
\* and returns the deduplicated records of every answer that was parsed:
\* nothing is abandoned and nothing is discarded.
C24_NoBatchDeadline ==
    pc = "done"
        => /\ Len(SearchCalls) = MaxQueries
           /\ Undated(all_results) = Undated(UpstreamSearchRecords(MaxQueries))
           /\ FewResults(all_results)
                => /\ Len(FetchCalls) = MaxUrls
                   /\ scraped = UpstreamListings(MaxUrls)
                   /\ results = all_results \o scraped
           /\ ~FewResults(all_results) => FetchCalls = <<>> /\ results = all_results
           /\ returned = FirstResults(DeduplicateResults(results))

\* C24: the call has returned its records with the first of them parsed at
\* the last reading of the clock: the second and the third query were sent
\* after that reading.
C24_ReturnedAfterLastReading ==
    /\ pc = "done"
    /\ now = MaxClock
    /\ Len(SearchCalls) = MaxQueries
    /\ returned # <<>>
    /\ returned[1].search_date = <<MaxClock>>

\* C25: a client without the API key or without the search-scope id sends
\* no request of either tier, never enters a loop of either tier, and
\* returns the empty list.
C25_NoRequestWithoutCredentials ==
    (~google_api_key \/ ~google_cse_id)
        => /\ calls = <<>>
           /\ pc \in {"idle", "dedup", "done"}
           /\ failed = [search |-> 0, fetch |-> 0]
           /\ pc = "done" => returned = <<>> /\ results = <<>>

\* C25: a call on a client with the API key and without the search-scope
\* id has returned.
C25_ReturnedWithoutScopeId ==
    /\ google_api_key
    /\ ~google_cse_id
    /\ pc = "done"
    /\ args # NoArgs

\* How far a call has come: every step of a call raises it.
Progress ==
    CASE pc = "idle" -> 0
      [] pc = "search_loop" -> 3 * qi
      [] pc = "search_wait" -> 3 * qi + 1
      [] pc = "search_sleep" -> 3 * qi + 2
      [] pc = "fetch_loop" -> 3 * (MaxQueries + 1) + 2 * ui
      [] pc = "fetch_wait" -> 3 * (MaxQueries + 1) + 2 * ui + 1
      [] pc = "dedup" -> 3 * (MaxQueries + 1) + 2 * (MaxUrls + 1) + 1
      [] OTHER -> 3 * (MaxQueries + 1) + 2 * (MaxUrls + 1) + 2

C27_SubsequenceOfArrival ==
    pc = "done" =>
        \E keys \in {TrimmedKeys(all_results \o scraped)} :
        \E out \in {TrimmedKeys(returned)} :
            /\ results = all_results \o scraped
            /\ \A j \in DOMAIN out :
                  /\ \E i \in DOMAIN keys : keys[i] = out[j]
                  /\ returned[j] = results[FirstOf(keys, out[j])]
                  /\ (\E i \in 1..Len(all_results) : keys[i] = out[j])
                        => \E i \in 1..Len(all_results) : returned[j] = all_results[i]
            /\ \A j, k \in DOMAIN out :
                  j < k => /\ out[j] # out[k]
                           /\ FirstOf(keys, out[j]) < FirstOf(keys, out[k])

\* C27: a call has returned a search-tier record whose key arrived again,
\* in another record, from a page.
C27_CollisionAcrossTiers ==
    /\ pc = "done"
    /\ \E i \in DOMAIN all_results : \E k \in DOMAIN scraped :
          /\ TrimmedKey(all_results[i]) = TrimmedKey(scraped[k])
          /\ all_results[i] # scraped[k]
          /\ \E j \in DOMAIN returned : returned[j] = all_results[i]
          /\ \A j \in DOMAIN returned : returned[j] # scraped[k]
\* ---------------------------------------------------------------- C30

\* s is a prefix of t.
IsPrefix(s, t) == Len(s) <= Len(t) /\ SubSeq(t, 1, Len(s)) = s

\* The session loses something it held: messages, extracted data, stored
\* results, or its creation time.
SessionReset(before, after) ==
    \/ ~IsPrefix(before.messages, after.messages)
    \/ ~(DOMAIN before.extracted_data \subseteq DOMAIN after.extracted_data)
    \/ before.last_search_results # <<>> /\ after.last_search_results = <<>>
    \/ before.created_at # after.created_at

\* C30: set_user_context on a known user replaces the profile of that user
\* by the normalised profile given and leaves the sessions of the user, the
\* creation time and every other user as they were; and a session that
\* exists loses messages, extracted data, stored results or its creation
\* time only in a create_session call with the ids of that session.
C30_SetUserContextReplacesProfileOnly ==
    [][ /\ \A u \in DOMAIN contexts :
              (chat'.pc = "set_user_context" /\ chat'.user_id = u /\ chat' # chat)
              => /\ DOMAIN contexts' = DOMAIN contexts
                 /\ contexts'[u].profile = NormalizedProfile(chat'.user_profile)
                 /\ contexts'[u].sessions = contexts[u].sessions
                 /\ contexts'[u].created_at = contexts[u].created_at
                 /\ \A v \in DOMAIN contexts \ {u} : contexts'[v] = contexts[v]
        /\ \A u \in DOMAIN contexts : \A s \in DOMAIN contexts[u].sessions :
              (\/ u \notin DOMAIN contexts'
               \/ s \notin DOMAIN contexts'[u].sessions
               \/ SessionReset(contexts[u].sessions[s], contexts'[u].sessions[s]))
              => /\ chat'.pc = "create_session"
                 /\ chat'.user_id = u
                 /\ chat'.session_id = s ]_vars

\* set_user_context has given u1, who has a session with a message and
\* stored results, another profile.
C30_ProfileReplacedSessionsKept ==
    /\ chat.pc = "set_user_context"
    /\ chat.user_id = "u1"
    /\ HasSession(contexts, "u1", "s1")
    /\ contexts["u1"].sessions["s1"].messages # <<>>
    /\ contexts["u1"].sessions["s1"].last_search_results # <<>>
    /\ contexts["u1"].profile # UsedStore["u1"].profile
    /\ "u2" \in DOMAIN contexts

\* ---------------------------------------------------------------- C28

\* The stored results of a session, None when there is no such session.
Stored(ctxs, u, s) == GetSearchResults(ctxs, u, s)

\* C28: the last_search_results of a session that exists changes only in
\* the step in which the search of a chat request of that user and session
\* returns a non-empty list, and then to that list; a session starts with
\* none. When the request is answered, get_search_results gives the list of
\* its own search when that was non-empty and otherwise (an empty list, an
\* exception, no search) what the session held when the request came in.
\* On a missing user or session get_search_results gives None and
\* store_search_results changes nothing.
C28_StoredResultsChangeOnlyByNonEmptySearch ==
    /\ [][ \A u \in DOMAIN contexts' : \A s \in DOMAIN contexts'[u].sessions :
             IF HasSession(contexts, u, s)
             THEN Stored(contexts', u, s) # Stored(contexts, u, s)
                  => /\ chat.pc = "searching" /\ chat'.pc = "answering"
                     /\ chat.user_id = u /\ chat.session_id = s
                     /\ chat'.search_results # <<>>
                     /\ chat'.search_results[1] # <<>>
                     /\ Stored(contexts', u, s) = chat'.search_results
             ELSE Stored(contexts', u, s) = <<>> ]_vars
    /\ [](chat.pc = "done"
          => chat.found = IF chat.search_results # <<>> /\ chat.search_results[1] # <<>>
                          THEN chat.search_results
                          ELSE chat.held)
    /\ [](\A u \in UserIds, s \in SessionIds :
            ~HasSession(contexts, u, s)
            => /\ GetSearchResults(contexts, u, s) = <<>>
               /\ \A rs \in Range(ResultLists) :
                     StoreSearchResults(contexts, u, s, rs) = contexts)

\* A request whose search returned no properties has been answered in a
\* session that held the list of an earlier search, and a user is unknown.
C28_EmptySearchKeepsEarlierList ==
    /\ chat.pc = "done"
    /\ chat.searches = 1
    /\ chat.search_results = << <<>> >>
    /\ chat.held # <<>>
    /\ chat.found = chat.held
    /\ "u2" \notin DOMAIN contexts

\* ---------------------------------------------------------------- C29

\* The history of the session of the chat request in progress.
ChatHistory == GetSessionHistory(contexts, chat.user_id, chat.session_id)

\* The message at place k of the history has this role and content.
HistoryHolds(k, role, content) ==
    /\ k \in DOMAIN ChatHistory
    /\ ChatHistory[k].role = role
    /\ ChatHistory[k].content = content

\* C29: a chat request on a session with `base` messages: the message of
\* the user is appended, at place base + 1, before a search or completion
\* call is made; until the completion call the history has base + 1
\* messages; process_message returns after exactly one completion call,
\* also when the search raised; after a reply the history has base + 2
\* messages, the last the reply of the assistant that is returned; after
\* an exception of the completion call the history has base + 1 messages
\* and the text returned starts with "I encountered an error: ". No step
\* removes or alters a message of the history, and the step after a search
\* leads to the completion call.
C29_UserMessageFirstAssistantIffReply ==
    /\ [](chat.pc = "received"
          => Len(ChatHistory) = chat.base /\ chat.searches = 0 /\ chat.completions = 0)
    /\ []((chat.pc # "idle" /\ (chat.searches > 0 \/ chat.completions > 0))
          => HistoryHolds(chat.base + 1, "user", chat.message))
    /\ [](chat.pc \in {"stored", "searching", "answering"}
          => /\ Len(ChatHistory) = chat.base + 1
             /\ HistoryHolds(chat.base + 1, "user", chat.message)
             /\ chat.completions = 0)
    /\ [](chat.pc \in {"returned", "done"}
          => /\ chat.completions = 1
             /\ chat.searches <= 1
             /\ HistoryHolds(chat.base + 1, "user", chat.message)
             /\ IF chat.ok
                THEN /\ Len(ChatHistory) = chat.base + 2
                     /\ HistoryHolds(chat.base + 2, "assistant", chat.response)
                ELSE /\ Len(ChatHistory) = chat.base + 1
                     /\ StartsWith(chat.response, ErrorPrefix))
    /\ [][ /\ chat.pc = "searching" => chat'.pc \in {"searching", "answering"}
           /\ (chat.pc \notin {"idle", "done"})
              => IsPrefix(ChatHistory,
                          GetSessionHistory(contexts', chat.user_id, chat.session_id))
         ]_vars

\* In a session that had messages, the search of a request raised, the
\* completion call replied, and the request was answered.
C29_RepliedAfterSearchRaised ==
    /\ chat.pc = "done"
    /\ chat.base > 0
    /\ chat.searches = 1
    /\ chat.raised
    /\ chat.ok
    /\ chat.completions = 1
    /\ Len(ChatHistory) = chat.base + 2

====
